---- MODULE Spec2Model ----
(***************************************************************************)
(* Model of @profullstack/favicon-generator.                               *)
(*                                                                         *)
(*   IcoSpec : createIcoBuffer (src/src/index.js) applied to bounded lists *)
(*             of PNG buffers and sizes.                                   *)
(***************************************************************************)
EXTENDS Integers, Sequences, FiniteSets, TLC

(***************************************************************************)
(* Bounds of the ICO encoder inputs.                                       *)
(***************************************************************************)
MaxImages == 2
MaxBufLen == 2

ByteVals == {0, 255}
SizeVals == {1, 255, 256, 257}

VARIABLES
  pngBuffers,   \* createIcoBuffer argument: sequence of byte sequences
  sizes,        \* createIcoBuffer argument: sequence of sizes
  icoPc,        \* "idle", "call" before the call, "returned" / "threw" after
  icoBuffer     \* the returned Buffer (a sequence of bytes), <<>> before

VARIABLES
  valOptions,   \* the object a caller passes (keys may be absent)
  valPc,        \* "idle", "call", "done"
  valChecked,   \* the object validateOptions received
  valResult     \* "ok" or the message of the error validateOptions threw

VARIABLES
  entry,        \* "api": generateIcons is called; "cli": bin/cli.js runs
  argv,         \* process.argv.slice(2)
  pc,           \* position of the generation run
  userOptions,  \* the argument of generateIcons (keys may be absent)
  options,      \* { ...DEFAULT_OPTIONS, ...userOptions }
  fsDirs,       \* file system: the directories that exist
  fsFiles,      \* file system: the files that exist, path -> content
  writeLog,     \* the paths written by the run, in order
  svgBuffer,    \* the bytes read from options.svgPath
  results,      \* the results object generateIcons builds and returns
  idx,          \* number of completed passes of the loop being run
  renderLog,    \* the sharp pipelines started, in order
  error,        \* "none" or the message of the error that ended the run
  consoleOut,   \* lines printed with console.log / console.warn
  consoleErr,   \* lines printed with console.error
  faviconFiles, \* generatedFiles of the running generateFaviconSizes call
  icoJobs,      \* the two renders under Promise.all, in the order of sizes
  packageJson,  \* what readPackageJson returned
  customArgs,   \* the arguments of a generateCustomIcons call, else <<>>
  firstRun      \* what a caller who runs generateIcons twice keeps, else <<>>

icoVars == <<pngBuffers, sizes, icoPc, icoBuffer>>
valVars == <<valOptions, valPc, valChecked, valResult>>
fsVars == <<fsDirs, fsFiles, writeLog>>
logVars == <<consoleOut, consoleErr>>
genVars == <<entry, argv, pc, userOptions, options, fsDirs, fsFiles, writeLog, svgBuffer,
             results, idx, renderLog, error, consoleOut, consoleErr,
             faviconFiles, icoJobs, packageJson, customArgs, firstRun>>

\* the state of the steps after the loop over options.iconSizes
lateVars == <<faviconFiles, icoJobs, packageJson>>

\* the variables a generation run leaves alone
idleVars == <<icoVars, valVars, customArgs, firstRun>>

vars == <<icoVars, valVars, genVars>>

IcoIdle ==
  /\ pngBuffers = <<>> /\ sizes = <<>> /\ icoPc = "idle" /\ icoBuffer = <<>>

ValIdle ==
  /\ valOptions = <<>> /\ valPc = "idle" /\ valChecked = <<>>
  /\ valResult = "none"

GenIdle ==
  /\ entry = "none" /\ argv = <<>>
  /\ pc = "idle" /\ userOptions = <<>> /\ options = <<>>
  /\ fsDirs = {} /\ fsFiles = <<>> /\ writeLog = <<>> /\ svgBuffer = <<>>
  /\ results = <<>> /\ idx = 0 /\ renderLog = <<>> /\ error = "none"
  /\ consoleOut = 0 /\ consoleErr = 0
  /\ faviconFiles = <<>> /\ icoJobs = <<>> /\ packageJson = <<>>
  /\ customArgs = <<>> /\ firstRun = <<>>

(***************************************************************************)
(* Strings are sequences of one-character strings, so that the string and  *)
(* path functions of the code can be computed character by character.      *)
(***************************************************************************)
EmptyStr == <<>>

StartsWith(s, pre) ==
  Len(pre) <= Len(s) /\ SubSeq(s, 1, Len(pre)) = pre

EndsWith(s, suf) ==
  Len(suf) <= Len(s) /\ SubSeq(s, Len(s) - Len(suf) + 1, Len(s)) = suf

\* String.prototype.includes
Includes(s, sub) ==
  \E i \in 1..(Len(s) - Len(sub) + 1) : SubSeq(s, i, i + Len(sub) - 1) = sub

UpperCase == <<"A", "B", "C", "D", "E", "F", "G", "H", "I", "J", "K", "L", "M",
               "N", "O", "P", "Q", "R", "S", "T", "U", "V", "W", "X", "Y", "Z">>
LowerCase == <<"a", "b", "c", "d", "e", "f", "g", "h", "i", "j", "k", "l", "m",
               "n", "o", "p", "q", "r", "s", "t", "u", "v", "w", "x", "y", "z">>

toLowerCaseChar(c) ==
  IF \E k \in 1..26 : UpperCase[k] = c
  THEN LowerCase[CHOOSE k \in 1..26 : UpperCase[k] = c]
  ELSE c

\* String.prototype.toLowerCase
toLowerCase(s) == [i \in 1..Len(s) |-> toLowerCaseChar(s[i])]

Slash == "/"
Dot == "."

\* index of the last occurrence of c in s, 0 when there is none
LastIndexOf(s, c) ==
  IF \E i \in 1..Len(s) : s[i] = c
  THEN CHOOSE i \in 1..Len(s) : s[i] = c /\ \A j \in (i + 1)..Len(s) : s[j] # c
  ELSE 0

\* s without the path separators at its end
RECURSIVE StripTrailingSlashes(_)
StripTrailingSlashes(s) ==
  IF s # <<>> /\ s[Len(s)] = Slash
  THEN StripTrailingSlashes(SubSeq(s, 1, Len(s) - 1))
  ELSE s

\* the right-most path component, trailing separators ignored
LastComponent(p) ==
  LET t == StripTrailingSlashes(p)
  IN  SubSeq(t, LastIndexOf(t, Slash) + 1, Len(t))

\* path.basename(p) (posix, no suffix argument)
basename(p) == LastComponent(p)

\* path.extname(p) (posix): from the last dot of the right-most component;
\* empty when there is no dot, when the dot opens the component, or when the
\* component is exactly ".."
extname(p) ==
  LET comp == LastComponent(p)
      startDot == LastIndexOf(comp, Dot)
  IN  IF startDot = 0 \/ startDot = 1 \/ comp = <<Dot, Dot>>
      THEN EmptyStr
      ELSE SubSeq(comp, startDot, Len(comp))

\* the components of p between separators, empty ones dropped
RECURSIVE SplitPath(_)
SplitPath(p) ==
  IF p = <<>> THEN <<>>
  ELSE IF p[1] = Slash THEN SplitPath(Tail(p))
  ELSE LET firstSlash ==
             IF \E i \in 1..Len(p) : p[i] = Slash
             THEN CHOOSE i \in 1..Len(p) :
                    p[i] = Slash /\ \A j \in 1..(i - 1) : p[j] # Slash
             ELSE Len(p) + 1
       IN  <<SubSeq(p, 1, firstSlash - 1)>>
             \o SplitPath(SubSeq(p, firstSlash + 1, Len(p)))

\* normalizeString: "." is dropped, ".." removes the component before it
\* (or is kept when there is none and the path is relative)
RECURSIVE ResolveSegments(_, _, _)
ResolveSegments(segs, done, allowAboveRoot) ==
  IF segs = <<>> THEN done
  ELSE LET seg == Head(segs)
           rest == Tail(segs)
       IN  IF seg = <<Dot>> THEN ResolveSegments(rest, done, allowAboveRoot)
           ELSE IF seg = <<Dot, Dot>>
           THEN IF done # <<>> /\ done[Len(done)] # <<Dot, Dot>>
                THEN ResolveSegments(rest, SubSeq(done, 1, Len(done) - 1),
                                     allowAboveRoot)
                ELSE IF allowAboveRoot
                THEN ResolveSegments(rest, Append(done, seg), allowAboveRoot)
                ELSE ResolveSegments(rest, done, allowAboveRoot)
           ELSE ResolveSegments(rest, Append(done, seg), allowAboveRoot)

RECURSIVE JoinSegments(_)
JoinSegments(segs) ==
  IF segs = <<>> THEN <<>>
  ELSE IF Len(segs) = 1 THEN segs[1]
  ELSE segs[1] \o <<Slash>> \o JoinSegments(Tail(segs))

\* path.normalize(p) (posix)
normalize(p) ==
  IF p = <<>> THEN <<Dot>>
  ELSE LET isAbsolute == p[1] = Slash
           trailingSeparator == p[Len(p)] = Slash
           r0 == JoinSegments(ResolveSegments(SplitPath(p), <<>>, ~isAbsolute))
           r1 == IF r0 = <<>> /\ ~isAbsolute THEN <<Dot>> ELSE r0
           r2 == IF r1 # <<>> /\ trailingSeparator THEN r1 \o <<Slash>> ELSE r1
       IN  IF isAbsolute THEN <<Slash>> \o r2 ELSE r2

\* path.join(a, b) (posix): the non-empty arguments joined by "/", normalized
pathJoin(a, b) ==
  IF a = <<>> /\ b = <<>> THEN <<Dot>>
  ELSE IF a = <<>> THEN normalize(b)
  ELSE IF b = <<>> THEN normalize(a)
  ELSE normalize(a \o <<Slash>> \o b)

\* path.dirname(p) (posix)
dirname(p) ==
  LET t == StripTrailingSlashes(p)
      k == LastIndexOf(t, Slash)
  IN  IF p = <<>> THEN <<Dot>>
      ELSE IF t = <<>> THEN <<Slash>>
      ELSE IF k = 0 THEN <<Dot>>
      ELSE LET d == StripTrailingSlashes(SubSeq(t, 1, k - 1))
           IN  IF d = <<>> THEN <<Slash>> ELSE d

(***************************************************************************)
(* JavaScript values.  A number is n, or n + 0.5 when half is TRUE; NaN is *)
(* a value of its own whose typeof is "number".  Absent marks a key that   *)
(* an object does not have.                                                *)
(***************************************************************************)
Undefined == [t |-> "undefined"]
Null == [t |-> "null"]
NaN == [t |-> "NaN"]
Absent == [t |-> "absent"]
Num(n) == [t |-> "number", n |-> n, half |-> FALSE]
NumHalf(n) == [t |-> "number", n |-> n, half |-> TRUE]
Str(s) == [t |-> "string", s |-> s]
Bool(b) == [t |-> "boolean", b |-> b]
Arr(items) == [t |-> "array", items |-> items]
IconEntry(size, name) == [size |-> size, name |-> name]

\* typeof v
TypeOf(v) ==
  CASE v.t = "NaN" -> "number"
    [] v.t \in {"array", "null"} -> "object"
    [] OTHER -> v.t

\* the truth value of v in a condition; !v is ~Truthy(v)
Truthy(v) ==
  CASE v.t \in {"undefined", "null", "NaN", "absent"} -> FALSE
    [] v.t = "number" -> v.n # 0 \/ v.half
    [] v.t = "string" -> v.s # <<>>
    [] v.t = "boolean" -> v.b
    [] OTHER -> TRUE

\* v < k, v > k, v <= k for a value v whose typeof is "number" and an
\* integer k; every comparison with NaN is false
NumLt(v, k) == v.t = "number" /\ v.n < k
NumGt(v, k) == v.t = "number" /\ (v.n > k \/ (v.n = k /\ v.half))
NumLe(v, k) == v.t = "number" /\ (v.n < k \/ (v.n = k /\ ~v.half))
NumGe(v, k) == v.t = "number" /\ v.n >= k

\* Number.isInteger(v)
IsInteger(v) == v.t = "number" /\ ~v.half

(***************************************************************************)
(* src/src/constants.js                                                    *)
(***************************************************************************)
DEFAULT_ICON_SIZES == <<
  IconEntry(Num(57),
      Str(<<"a", "p", "p", "l", "e", "-", "t", "o", "u", "c", "h", "-", "i", "c", "o", "n", "-", "5", "7", "x", "5", "7", ".", "p", "n", "g">>)),
  IconEntry(Num(60),
      Str(<<"a", "p", "p", "l", "e", "-", "t", "o", "u", "c", "h", "-", "i", "c", "o", "n", "-", "6", "0", "x", "6", "0", ".", "p", "n", "g">>)),
  IconEntry(Num(72),
      Str(<<"a", "p", "p", "l", "e", "-", "t", "o", "u", "c", "h", "-", "i", "c", "o", "n", "-", "7", "2", "x", "7", "2", ".", "p", "n", "g">>)),
  IconEntry(Num(76),
      Str(<<"a", "p", "p", "l", "e", "-", "t", "o", "u", "c", "h", "-", "i", "c", "o", "n", "-", "7", "6", "x", "7", "6", ".", "p", "n", "g">>)),
  IconEntry(Num(114),
      Str(<<"a", "p", "p", "l", "e", "-", "t", "o", "u", "c", "h", "-", "i", "c", "o", "n", "-", "1", "1", "4", "x", "1", "1", "4", ".", "p", "n", "g">>)),
  IconEntry(Num(120),
      Str(<<"a", "p", "p", "l", "e", "-", "t", "o", "u", "c", "h", "-", "i", "c", "o", "n", "-", "1", "2", "0", "x", "1", "2", "0", ".", "p", "n", "g">>)),
  IconEntry(Num(144),
      Str(<<"a", "p", "p", "l", "e", "-", "t", "o", "u", "c", "h", "-", "i", "c", "o", "n", "-", "1", "4", "4", "x", "1", "4", "4", ".", "p", "n", "g">>)),
  IconEntry(Num(152),
      Str(<<"a", "p", "p", "l", "e", "-", "t", "o", "u", "c", "h", "-", "i", "c", "o", "n", "-", "1", "5", "2", "x", "1", "5", "2", ".", "p", "n", "g">>)),
  IconEntry(Num(180),
      Str(<<"a", "p", "p", "l", "e", "-", "t", "o", "u", "c", "h", "-", "i", "c", "o", "n", "-", "1", "8", "0", "x", "1", "8", "0", ".", "p", "n", "g">>)),
  IconEntry(Num(192),
      Str(<<"i", "c", "o", "n", "-", "1", "9", "2", "x", "1", "9", "2", ".", "p", "n", "g">>)),
  IconEntry(Num(256),
      Str(<<"i", "c", "o", "n", "-", "2", "5", "6", "x", "2", "5", "6", ".", "p", "n", "g">>)),
  IconEntry(Num(384),
      Str(<<"i", "c", "o", "n", "-", "3", "8", "4", "x", "3", "8", "4", ".", "p", "n", "g">>)),
  IconEntry(Num(512),
      Str(<<"i", "c", "o", "n", "-", "5", "1", "2", "x", "5", "1", "2", ".", "p", "n", "g">>)) >>

DEFAULT_OPTIONS == [
  svgPath |-> Str(<<".", "/", "f", "a", "v", "i", "c", "o", "n", ".", "s", "v", "g">>),
  outputDir |-> Str(<<".", "/", "i", "c", "o", "n", "s">>),
  iconSizes |-> Arr(DEFAULT_ICON_SIZES),
  generateFavicon |-> Bool(TRUE),
  faviconSizes |-> Arr(<<Num(16), Num(32)>>),
  generateRootFavicons |-> Bool(TRUE),
  faviconPngSize |-> Num(32),
  quality |-> Num(95),
  compressionLevel |-> Num(9),
  verbose |-> Bool(TRUE) ]

OptionKeys == DOMAIN DEFAULT_OPTIONS

BACKGROUNDS == [
  transparent |-> [r |-> 255, g |-> 255, b |-> 255, alpha |-> 0],
  white |-> [r |-> 255, g |-> 255, b |-> 255, alpha |-> 1],
  black |-> [r |-> 0, g |-> 0, b |-> 0, alpha |-> 1] ]

\* { ...DEFAULT_OPTIONS, ...userOptions }: a key of userOptions wins whenever
\* the object has it, also when its value is undefined
mergeOptions(defaults, user) ==
  [k \in OptionKeys |-> IF user[k] = Absent THEN defaults[k] ELSE user[k]]

(***************************************************************************)
(* src/src/utils.js: isSvgFile, validateOptions                            *)
(***************************************************************************)
\* (mutant: every path with an extension passes)
isSvgFile_anyExt(filePath) == extname(filePath) # EmptyStr

isSvgFile(filePath) == toLowerCase(extname(filePath)) = <<".", "s", "v", "g">>

\* the check of one iconSizes entry; "ok" or the message of the error thrown
validateIcon(icon) ==
  IF ~Truthy(icon.size) \/ TypeOf(icon.size) # "number" \/ NumLe(icon.size, 0)
  THEN "Each icon must have a valid positive size"
  ELSE IF ~Truthy(icon.name) \/ TypeOf(icon.name) # "string"
  THEN "Each icon must have a valid name"
  ELSE "ok"

\* the loop over options.iconSizes: the error of the first bad entry
RECURSIVE validateIcons(_)
validateIcons(icons) ==
  IF icons = <<>> THEN "ok"
  ELSE IF validateIcon(Head(icons)) # "ok" THEN validateIcon(Head(icons))
  ELSE validateIcons(Tail(icons))

validateQuality(quality) ==
  IF TypeOf(quality) # "number" \/ NumLt(quality, 1) \/ NumGt(quality, 100)
  THEN "quality must be a number between 1 and 100"
  ELSE "ok"

validateCompressionLevel(compressionLevel) ==
  IF \/ TypeOf(compressionLevel) # "number"
     \/ NumLt(compressionLevel, 0)
     \/ NumGt(compressionLevel, 9)
  THEN "compressionLevel must be a number between 0 and 9"
  ELSE "ok"

\* validateOptions(options): "ok" when it returns, else the message of the
\* error it throws; path.extname throws a TypeError for a non-string path
validateOptions(opts) ==
  IF ~Truthy(opts.svgPath) THEN "svgPath is required"
  ELSE IF TypeOf(opts.svgPath) # "string" THEN "ERR_INVALID_ARG_TYPE"
  ELSE IF ~isSvgFile(opts.svgPath.s) THEN "svgPath must be an SVG file"
  ELSE IF ~Truthy(opts.outputDir) THEN "outputDir is required"
  ELSE IF opts.iconSizes.t # "array" \/ Len(opts.iconSizes.items) = 0
  THEN "iconSizes must be a non-empty array"
  ELSE IF validateIcons(opts.iconSizes.items) # "ok"
  THEN validateIcons(opts.iconSizes.items)
  ELSE IF validateQuality(opts.quality) # "ok"
  THEN validateQuality(opts.quality)
  ELSE validateCompressionLevel(opts.compressionLevel)

(***************************************************************************)
(* Node Buffer primitives.  A write state is [buf, threw]; once a write    *)
(* has thrown, the function is left and nothing more is written.           *)
(***************************************************************************)
BufferAlloc(n) == [i \in 1..n |-> 0]

writeUInt8(st, value, offset) ==
  IF st.threw THEN st
  ELSE IF value \notin 0..255 \/ offset + 1 > Len(st.buf)
       THEN [st EXCEPT !.threw = TRUE]
       ELSE [st EXCEPT !.buf[offset + 1] = value]

writeUInt16LE(st, value, offset) ==
  IF st.threw THEN st
  ELSE IF value \notin 0..65535 \/ offset + 2 > Len(st.buf)
       THEN [st EXCEPT !.threw = TRUE]
       ELSE [st EXCEPT !.buf[offset + 1] = value % 256,
                       !.buf[offset + 2] = value \div 256]

\* the range 0 .. 2^32-1 is tested on the high half (value \div 2^16 < 2^16)
writeUInt32LE(st, value, offset) ==
  IF st.threw THEN st
  ELSE IF value < 0 \/ value \div 65536 >= 65536 \/ offset + 4 > Len(st.buf)
       THEN [st EXCEPT !.threw = TRUE]
       ELSE [st EXCEPT !.buf[offset + 1] = value % 256,
                       !.buf[offset + 2] = (value \div 256) % 256,
                       !.buf[offset + 3] = (value \div 65536) % 256,
                       !.buf[offset + 4] = (value \div 16777216) % 256]

\* (mutant: the copy reads the source from its second byte)
bufferCopy_shifted(st, source, targetStart) ==
  IF st.threw THEN st
  ELSE [st EXCEPT !.buf =
          [j \in 1..Len(st.buf) |->
             IF j > targetStart /\ j < targetStart + Len(source)
             THEN source[j - targetStart + 1]
             ELSE st.buf[j]]]

\* source.copy(target, targetStart): copies as many bytes as fit
bufferCopy(st, source, targetStart) ==
  IF st.threw THEN st
  ELSE [st EXCEPT !.buf =
          [j \in 1..Len(st.buf) |->
             IF j > targetStart /\ j <= targetStart + Len(source)
             THEN source[j - targetStart]
             ELSE st.buf[j]]]

(***************************************************************************)
(* createIcoBuffer(pngBuffers, sizes)                                      *)
(***************************************************************************)
headerSize == 6
dirEntrySize == 16

dirSize(bufs) == headerSize + dirEntrySize * Len(bufs)

\* the loop "imageOffsets.push(totalSize); totalSize += buffer.length"
\* after k buffers: the running totalSize
RECURSIVE totalSizeAfter(_, _)
totalSizeAfter(bufs, k) ==
  IF k = 0 THEN dirSize(bufs)
  ELSE totalSizeAfter(bufs, k - 1) + Len(bufs[k])

\* (mutant: the offsets start at the header instead of after the directory)
imageOffsets_noDir(bufs) ==
  [i \in 1..Len(bufs) |-> totalSizeAfter(bufs, i - 1) - dirEntrySize * Len(bufs)]

imageOffsets(bufs) == [i \in 1..Len(bufs) |-> totalSizeAfter(bufs, i - 1)]

\* (mutant: one byte of padding per image)
totalSize_padded(bufs) == totalSizeAfter(bufs, Len(bufs)) + Len(bufs)

totalSize(bufs) == totalSizeAfter(bufs, Len(bufs))

\* (mutant: the count is written before the type)
writeIcoHeader_swapped(st, iconCount) ==
  writeUInt16LE(writeUInt16LE(writeUInt16LE(st, 0, 0), iconCount, 2), 1, 4)

\* header: reserved, type, number of images; leaves offset = 6
writeIcoHeader(st, iconCount) ==
  writeUInt16LE(writeUInt16LE(writeUInt16LE(st, 0, 0), 1, 2), iconCount, 4)

colorPalette == 0
entryReserved == 0
colorPlanes == 1
bitsPerPixel == 32

\* width and height bytes of an entry (mutant: the 0 rule on the wrong size)
dimensionByte_255(size) == IF size = 255 THEN 0 ELSE size

\* "size === 256 ? 0 : size"
dimensionByte(size) == IF size = 256 THEN 0 ELSE size

writeEntryDimensions(st, size, offset) ==
  writeUInt8(writeUInt8(st, dimensionByte(size), offset),
             dimensionByte(size), offset + 1)

\* (mutant: 24 bits per pixel)
writeEntryFormat_24(st, offset) ==
  writeUInt16LE(
    writeUInt16LE(
      writeUInt8(writeUInt8(st, colorPalette, offset + 2),
                 entryReserved, offset + 3),
      colorPlanes, offset + 4),
    24, offset + 6)

\* palette, reserved, planes and bits per pixel of an entry
writeEntryFormat(st, offset) ==
  writeUInt16LE(
    writeUInt16LE(
      writeUInt8(writeUInt8(st, colorPalette, offset + 2),
                 entryReserved, offset + 3),
      colorPlanes, offset + 4),
    bitsPerPixel, offset + 6)

\* image size and image offset of an entry
writeEntryData(st, imageSize, imageOffset, offset) ==
  writeUInt32LE(writeUInt32LE(st, imageSize, offset + 8),
                imageOffset, offset + 12)

\* one pass of the directory loop, i is the 0-based index, offset the
\* position of the entry; sizes[i] is undefined past the end of sizes and
\* writeUInt8(undefined) throws
writeDirEntry(st, bufs, szs, i, offset) ==
  IF st.threw THEN st
  ELSE IF i + 1 > Len(szs) THEN [st EXCEPT !.threw = TRUE]
  ELSE
    LET size == szs[i + 1]
        imageSize == Len(bufs[i + 1])
        imageOffset == imageOffsets(bufs)[i + 1]
    IN  writeEntryData(
          writeEntryFormat(writeEntryDimensions(st, size, offset), offset),
          imageSize, imageOffset, offset)

\* the directory loop for i = 0 .. n-1
RECURSIVE writeDirEntries(_, _, _, _)
writeDirEntries(st, bufs, szs, n) ==
  IF n = 0 THEN st
  ELSE writeDirEntry(writeDirEntries(st, bufs, szs, n - 1), bufs, szs,
                     n - 1, headerSize + dirEntrySize * (n - 1))

\* offset reached after copying the first k buffers
RECURSIVE copyOffset(_, _)
copyOffset(bufs, k) ==
  IF k = 0 THEN headerSize + dirEntrySize * Len(bufs)
  ELSE copyOffset(bufs, k - 1) + Len(bufs[k])

\* the loop "buffer.copy(icoBuffer, offset); offset += buffer.length"
RECURSIVE writeImageData(_, _, _)
writeImageData(st, bufs, n) ==
  IF n = 0 THEN st
  ELSE bufferCopy(writeImageData(st, bufs, n - 1), bufs[n],
                  copyOffset(bufs, n - 1))

createIcoBuffer(bufs, szs) ==
  LET iconCount == Len(bufs)
      st0 == [buf |-> BufferAlloc(totalSize(bufs)), threw |-> FALSE]
      st1 == writeIcoHeader(st0, iconCount)
      st2 == writeDirEntries(st1, bufs, szs, iconCount)
  IN  writeImageData(st2, bufs, iconCount)

(***************************************************************************)
(* IcoSpec: the inputs are drawn in Init, the call is one action.          *)
(***************************************************************************)
RECURSIVE SeqsUpTo(_, _)
SeqsUpTo(S, n) ==
  IF n = 0 THEN {<<>>}
  ELSE LET shorter == SeqsUpTo(S, n - 1)
       IN  shorter \cup {Append(s, x) : s \in {t \in shorter : Len(t) = n - 1}, x \in S}

PngBufferVals == SeqsUpTo(ByteVals, MaxBufLen)

IcoInit ==
  /\ pngBuffers \in SeqsUpTo(PngBufferVals, MaxImages)
  /\ sizes \in SeqsUpTo(SizeVals, MaxImages)
  /\ icoPc = "call"
  /\ icoBuffer = <<>>
  /\ ValIdle
  /\ GenIdle

CallCreateIcoBuffer ==
  /\ icoPc = "call"
  /\ LET r == createIcoBuffer(pngBuffers, sizes)
     IN  /\ icoPc' = IF r.threw THEN "threw" ELSE "returned"
         /\ icoBuffer' = IF r.threw THEN <<>> ELSE r.buf
  /\ UNCHANGED <<pngBuffers, sizes, valVars, genVars>>

IcoNext == CallCreateIcoBuffer

IcoSpec == IcoInit /\ [][IcoNext]_vars

(***************************************************************************)
(* ValSpec: validateOptions applied to bounded option objects, called      *)
(* directly (readOptions) or after the merge with the defaults that opens  *)
(* generateIcons.                                                          *)
(***************************************************************************)
MaxValIcons == 2

SvgPathVals ==
  { Absent, Undefined, Str(EmptyStr),
    Str(<<"l", "o", "g", "o", ".", "s", "v", "g">>),
    Str(<<"L", "O", "G", "O", ".", "S", "V", "G">>),
    Str(<<"l", "o", "g", "o", ".", "p", "n", "g">>),
    Str(<<".", "s", "v", "g">>),
    Str(<<"a", ".", "s", "v", "g", "/", "b">>) }

OutputDirVals == { Absent, Str(EmptyStr), Str(<<"o", "u", "t">>) }

ValIconEntryVals ==
  { IconEntry(Num(64), Str(<<"i", "c", "o", "n", "-", "6", "4", ".", "p", "n", "g">>)),
    IconEntry(Num(0), Str(<<"i", "c", "o", "n", "-", "6", "4", ".", "p", "n", "g">>)),
    IconEntry(Num(-1), Str(<<"i", "c", "o", "n", "-", "6", "4", ".", "p", "n", "g">>)),
    IconEntry(NaN, Str(<<"i", "c", "o", "n", "-", "6", "4", ".", "p", "n", "g">>)),
    IconEntry(NumHalf(16), Str(<<"i", "c", "o", "n", "-", "6", "4", ".", "p", "n", "g">>)),
    IconEntry(Str(<<"6", "4">>), Str(<<"i", "c", "o", "n", "-", "6", "4", ".", "p", "n", "g">>)),
    IconEntry(Num(64), Undefined),
    IconEntry(Num(64), Str(EmptyStr)) }

ValIconSizesVals ==
  {Absent, Null} \cup {Arr(l) : l \in SeqsUpTo(ValIconEntryVals, MaxValIcons)}

QualityVals == { Absent, NaN, Num(0), Num(1), Num(100), Num(101) }

CompressionLevelVals == { Absent, NaN, Num(-1), Num(0), Num(10) }

\* the caller's object: the five validated keys vary, the others are absent
ValOptionsVals ==
  { [k \in OptionKeys |->
       CASE k = "svgPath" -> sp
         [] k = "outputDir" -> od
         [] k = "iconSizes" -> is
         [] k = "quality" -> q
         [] k = "compressionLevel" -> cl
         [] OTHER -> Absent] :
    sp \in SvgPathVals, od \in OutputDirVals, is \in ValIconSizesVals,
    q \in QualityVals, cl \in CompressionLevelVals }

\* reading a key an object does not have gives undefined
readOptions(obj) ==
  [k \in OptionKeys |-> IF obj[k] = Absent THEN Undefined ELSE obj[k]]

ValInit ==
  /\ valOptions \in ValOptionsVals
  /\ valPc = "call"
  /\ valChecked = <<>>
  /\ valResult = "none"
  /\ IcoIdle
  /\ GenIdle

\* validateOptions(obj) called by a user of the package
CallValidateOptions ==
  /\ valPc = "call"
  /\ valChecked' = readOptions(valOptions)
  /\ valResult' = validateOptions(readOptions(valOptions))
  /\ valPc' = "done"
  /\ UNCHANGED <<valOptions, icoVars, genVars>>

\* the first two statements of generateIcons(obj)
MergeAndValidate ==
  /\ valPc = "call"
  /\ valChecked' = mergeOptions(DEFAULT_OPTIONS, valOptions)
  /\ valResult' = validateOptions(mergeOptions(DEFAULT_OPTIONS, valOptions))
  /\ valPc' = "done"
  /\ UNCHANGED <<valOptions, icoVars, genVars>>

ValNext == CallValidateOptions \/ MergeAndValidate

ValSpec == ValInit /\ [][ValNext]_vars

(***************************************************************************)
(* src/bin/cli.js: parseArgs                                               *)
(***************************************************************************)
DigitChars == <<"0", "1", "2", "3", "4", "5", "6", "7", "8", "9">>

IsDigit(c) == \E d \in 1..10 : DigitChars[d] = c
DigitValue(c) == (CHOOSE d \in 1..10 : DigitChars[d] = c) - 1

\* the value of the longest prefix of digits of s, continuing from acc
RECURSIVE digitsValue(_, _)
digitsValue(s, acc) ==
  IF s = <<>> \/ ~IsDigit(s[1]) THEN acc
  ELSE digitsValue(Tail(s), 10 * acc + DigitValue(s[1]))

RECURSIVE skipSpaces(_)
skipSpaces(s) == IF s # <<>> /\ s[1] = " " THEN skipSpaces(Tail(s)) ELSE s

\* parseInt(v, 10): leading blanks, an optional sign, then digits; NaN when
\* no digit follows (also for undefined, which is read as "undefined")
parseInt10(v) ==
  IF v.t # "string" THEN NaN
  ELSE LET t == skipSpaces(v.s)
           signed == t # <<>> /\ t[1] \in {"-", "+"}
           body == IF signed THEN Tail(t) ELSE t
       IN  IF body = <<>> \/ ~IsDigit(body[1]) THEN NaN
           ELSE IF signed /\ t[1] = "-" THEN Num(0 - digitsValue(body, 0))
           ELSE Num(digitsValue(body, 0))

\* args[i] for a 0-based i, undefined past the end
argAt(args, i) == IF i + 1 <= Len(args) THEN Str(args[i + 1]) ELSE Undefined

NoOptions == [k \in OptionKeys |-> Absent]

\* the for/switch of parseArgs from position i on; exit names the flag that
\* ended the process inside the loop
RECURSIVE parseArgsFrom(_, _, _)
parseArgsFrom(args, i, opts) ==
  IF i >= Len(args) THEN [options |-> opts, exit |-> "none"]
  ELSE LET arg == args[i + 1]
       IN  CASE arg \in {<<"-", "i">>, <<"-", "-", "i", "n", "p", "u", "t">>} ->
                  parseArgsFrom(args, i + 2,
                    [opts EXCEPT !.svgPath = argAt(args, i + 1)])
             [] arg \in {<<"-", "o">>, <<"-", "-", "o", "u", "t", "p", "u", "t">>} ->
                  parseArgsFrom(args, i + 2,
                    [opts EXCEPT !.outputDir = argAt(args, i + 1)])
             [] arg \in {<<"-", "q">>, <<"-", "-", "q", "u", "a", "l", "i", "t", "y">>} ->
                  parseArgsFrom(args, i + 2,
                    [opts EXCEPT !.quality = parseInt10(argAt(args, i + 1))])
             [] arg \in {<<"-", "c">>, <<"-", "-", "c", "o", "m", "p", "r", "e", "s", "s", "i", "o", "n">>} ->
                  parseArgsFrom(args, i + 2,
                    [opts EXCEPT !.compressionLevel =
                                   parseInt10(argAt(args, i + 1))])
             [] arg = <<"-", "-", "n", "o", "-", "f", "a", "v", "i", "c", "o", "n">> ->
                  parseArgsFrom(args, i + 1,
                    [opts EXCEPT !.generateFavicon = Bool(FALSE)])
             [] arg = <<"-", "-", "s", "i", "l", "e", "n", "t">> ->
                  parseArgsFrom(args, i + 1,
                    [opts EXCEPT !.verbose = Bool(FALSE)])
             [] arg \in {<<"-", "h">>, <<"-", "-", "h", "e", "l", "p">>} ->
                  [options |-> opts, exit |-> "help"]
             [] arg \in {<<"-", "v">>, <<"-", "-", "v", "e", "r", "s", "i", "o", "n">>} ->
                  [options |-> opts, exit |-> "version"]
             [] OTHER -> parseArgsFrom(args, i + 1, opts)

parseArgs(args) == parseArgsFrom(args, 0, NoOptions)

(***************************************************************************)
(* Conversions between numbers and strings.                                *)
(***************************************************************************)
\* the decimal digits of a natural number
RECURSIVE natToString(_)
natToString(n) ==
  IF n < 10 THEN <<DigitChars[n + 1]>>
  ELSE natToString(n \div 10) \o <<DigitChars[(n % 10) + 1]>>

\* a value inside a template literal `${v}`
toString(v) ==
  CASE v.t = "number" /\ ~v.half ->
         IF v.n < 0 THEN <<"-">> \o natToString(0 - v.n) ELSE natToString(v.n)
    [] v.t = "number" /\ v.half ->
         IF v.n < 0
         THEN <<"-">> \o natToString(0 - v.n - 1) \o <<".", "5">>
         ELSE natToString(v.n) \o <<".", "5">>
    [] v.t = "NaN" -> <<"N", "a", "N">>
    [] v.t = "undefined" -> <<"u", "n", "d", "e", "f", "i", "n", "e", "d">>
    [] v.t = "null" -> <<"n", "u", "l", "l">>
    [] v.t = "string" -> v.s
    [] v.t = "boolean" -> IF v.b THEN <<"t", "r", "u", "e">> ELSE <<"f", "a", "l", "s", "e">>

\* s.match(/\d+/)?.[0] || '0': the first run of digits of s, "0" without one
RECURSIVE firstDigits(_)
firstDigits(s) ==
  IF s = <<>> THEN <<"0">>
  ELSE IF IsDigit(s[1])
  THEN LET stop == IF \E i \in 1..Len(s) : ~IsDigit(s[i])
                   THEN (CHOOSE i \in 1..Len(s) :
                           ~IsDigit(s[i]) /\ \A j \in 1..(i - 1) : IsDigit(s[j])) - 1
                   ELSE Len(s)
       IN  SubSeq(s, 1, stop)
  ELSE firstDigits(Tail(s))

(***************************************************************************)
(* The file system and the console.                                        *)
(***************************************************************************)
\* the key of a path in the file system: normalized, no trailing separator
fsPath(p) ==
  LET t == StripTrailingSlashes(normalize(p))
  IN  IF t = <<>> THEN <<Slash>> ELSE t

\* (mutant: every path is taken to exist)
pathExists_always(p) == TRUE

pathExists(p) == fsPath(p) \in fsDirs \/ fsPath(p) \in DOMAIN fsFiles

\* a file can be created or replaced at p: its directory exists and p is
\* not itself a directory
canWriteFile(p) == fsPath(dirname(fsPath(p))) \in fsDirs /\ fsPath(p) \notin fsDirs

fileWritten(files, p, content) ==
  [q \in (DOMAIN files) \cup {fsPath(p)} |->
     IF q = fsPath(p) THEN content ELSE files[q]]

\* p and the directories above it
RECURSIVE ancestorsOf(_)
ancestorsOf(p) ==
  IF dirname(p) = p THEN {p} ELSE {p} \cup ancestorsOf(dirname(p))

\* fs.mkdir(p, { recursive: true }) succeeds unless a file is in the way
canMkdir(p) == \A q \in ancestorsOf(fsPath(p)) : q \notin DOMAIN fsFiles

\* new Logger(verbose): the parameter defaults to true when it is undefined
loggerVerbose(opts) ==
  IF opts.verbose.t = "undefined" THEN TRUE ELSE Truthy(opts.verbose)

\* lines added to stdout by n calls of log / success / info / warn
logged(opts, n) == IF loggerVerbose(opts) THEN n ELSE 0

(***************************************************************************)
(* src/src/utils.js: readPackageJson and the three metadata generators     *)
(***************************************************************************)
\* obj with obj[key] = val added or replaced
withField(obj, key, val) ==
  [f \in (DOMAIN obj) \cup {key} |-> IF f = key THEN val ELSE obj[f]]

OwnPackageName ==
  <<"@", "p", "r", "o", "f", "u", "l", "l", "s", "t", "a", "c", "k", "/", "f", "a", "v", "i", "c", "o", "n", "-", "g", "e", "n", "e", "r", "a", "t", "o", "r">>

\* the search from the working directory upwards: chain lists, for each
\* directory below the root, kind "none" (no package.json), "broken" (it
\* cannot be read or parsed) or "json" (the parsed object)
RECURSIVE readPackageJson(_)
readPackageJson(chain) ==
  IF chain = <<>> THEN Null
  ELSE IF Head(chain).kind \in {"none", "broken"}
  THEN readPackageJson(Tail(chain))
  ELSE IF Head(chain).name = Str(OwnPackageName)
  THEN readPackageJson(Tail(chain))
  ELSE Head(chain)

\* packageJson?.name || 'Your App Name'
appNameOf(pkg) ==
  IF pkg # Null /\ Truthy(pkg.name) THEN pkg.name
  ELSE Str(<<"Y", "o", "u", "r", " ", "A", "p", "p", " ", "N", "a", "m", "e">>)

\* packageJson?.description || 'Your app description'
appDescriptionOf(pkg) ==
  IF pkg # Null /\ Truthy(pkg.description) THEN pkg.description
  ELSE Str(<<"Y", "o", "u", "r", " ", "a", "p", "p", " ", "d", "e", "s", "c", "r", "i", "p", "t", "i", "o", "n">>)

\* a > b for two numbers
sizeGt(a, b) == a.n > b.n \/ (a.n = b.n /\ a.half /\ ~b.half)

\* Array.prototype.sort((a, b) => b.size - a.size): stable, largest first
insertBySizeDesc(sorted, x) ==
  LET k == IF \E i \in 1..Len(sorted) : sizeGt(x.size, sorted[i].size)
           THEN CHOOSE i \in 1..Len(sorted) :
                  /\ sizeGt(x.size, sorted[i].size)
                  /\ \A j \in 1..(i - 1) : ~sizeGt(x.size, sorted[j].size)
           ELSE Len(sorted) + 1
  IN  SubSeq(sorted, 1, k - 1) \o <<x>> \o SubSeq(sorted, k, Len(sorted))

RECURSIVE sortBySizeDesc(_)
sortBySizeDesc(items) ==
  IF items = <<>> THEN <<>>
  ELSE insertBySizeDesc(sortBySizeDesc(SubSeq(items, 1, Len(items) - 1)),
                        items[Len(items)])

\* Array.prototype.filter
RECURSIVE filterSeq(_, _)
filterSeq(items, keep) ==
  IF items = <<>> THEN <<>>
  ELSE IF Head(items) \in keep THEN <<Head(items)>> \o filterSeq(Tail(items), keep)
  ELSE filterSeq(Tail(items), keep)

\* Array.prototype.find(({ size }) => size === k): the name of the first
\* icon of that size, Undefined without one
findBySize(icons, k) ==
  IF \E i \in 1..Len(icons) : icons[i].size = Num(k)
  THEN icons[CHOOSE i \in 1..Len(icons) :
               /\ icons[i].size = Num(k)
               /\ \A j \in 1..(i - 1) : icons[j].size # Num(k)]
  ELSE Undefined

baseUrl == <<"/", "i", "c", "o", "n", "s">>

\* `${size}x${size}`
sizesAttr(size) == toString(size) \o <<"x">> \o toString(size)

\* results.faviconSizes after generateHtmlMetaTags: sort works in place
faviconSizesSorted(res) ==
  IF Len(res.faviconSizes) > 0
  THEN sortBySizeDesc(res.faviconSizes)
  ELSE res.faviconSizes

isAppleTouchIcon(icon) == StartsWith(icon.name.s, <<"a", "p", "p", "l", "e", "-", "t", "o", "u", "c", "h", "-", "i", "c", "o", "n">>)

\* the lines of meta-tags.html that depend on results
generateHtmlMetaTags(res) ==
  LET favs == faviconSizesSorted(res)
      appleIcons == sortBySizeDesc(
                      filterSeq(res.icons,
                                {i \in {res.icons[j] : j \in 1..Len(res.icons)} :
                                   isAppleTouchIcon(i)}))
      tile144 == findBySize(res.icons, 144)
  IN  [kind |-> "html",
       icon |-> <<"/", "f", "a", "v", "i", "c", "o", "n", ".", "s", "v", "g">>,
       faviconLinks |->
         [i \in 1..Len(favs) |->
            [sizes |-> sizesAttr(favs[i].size),
             href |-> baseUrl \o <<"/", "f", "a", "v", "i", "c", "o", "n", "-">> \o toString(favs[i].size) \o <<".", "p", "n", "g">>]],
       appleLinks |->
         [i \in 1..Len(appleIcons) |->
            [sizes |-> sizesAttr(appleIcons[i].size),
             href |-> baseUrl \o <<Slash>> \o appleIcons[i].name.s]],
       manifest |-> <<"/", "m", "a", "n", "i", "f", "e", "s", "t", ".", "j", "s", "o", "n">>,
       tileImage |-> IF tile144 = Undefined THEN Undefined
                     ELSE Str(baseUrl \o <<Slash>> \o tile144.name.s)]

isPwaIcon(icon) ==
  StartsWith(icon.name.s, <<"i", "c", "o", "n", "-">>) /\ ~Includes(icon.name.s, <<"a", "p", "p", "l", "e">>)

\* one entry of the icons array of the manifest
manifestIcon(icon) ==
  [src |-> baseUrl \o <<Slash>> \o icon.name.s,
   sizes |-> sizesAttr(icon.size),
   type |-> <<"i", "m", "a", "g", "e", "/", "p", "n", "g">>,
   purpose |-> IF icon.size = Num(192) \/ icon.size = Num(512)
               THEN <<"a", "n", "y", " ", "m", "a", "s", "k", "a", "b", "l", "e">> ELSE <<"a", "n", "y">>]

\* (mutant: no sort, the entries stay in the order of results.icons)
insertBySizesAsc_unsorted(sorted, x) == Append(sorted, x)

\* Array.prototype.sort by parseInt(sizes): stable, smallest first
insertBySizesAsc(sorted, x) ==
  LET key(e) == parseInt10(Str(e.sizes)).n
      k == IF \E i \in 1..Len(sorted) : key(sorted[i]) > key(x)
           THEN CHOOSE i \in 1..Len(sorted) :
                  /\ key(sorted[i]) > key(x)
                  /\ \A j \in 1..(i - 1) : ~(key(sorted[j]) > key(x))
           ELSE Len(sorted) + 1
  IN  SubSeq(sorted, 1, k - 1) \o <<x>> \o SubSeq(sorted, k, Len(sorted))

RECURSIVE sortBySizesAsc(_)
sortBySizesAsc(items) ==
  IF items = <<>> THEN <<>>
  ELSE insertBySizesAsc(sortBySizesAsc(SubSeq(items, 1, Len(items) - 1)),
                        items[Len(items)])

generateManifestJson(res, name, description) ==
  LET pwa == filterSeq(res.icons,
                       {i \in {res.icons[j] : j \in 1..Len(res.icons)} :
                          isPwaIcon(i)})
  IN  [kind |-> "manifest",
       name |-> name,
       short_name |-> <<"A", "p", "p">>,
       description |-> description,
       start_url |-> <<"/">>,
       display |-> <<"s", "t", "a", "n", "d", "a", "l", "o", "n", "e">>,
       icons |-> sortBySizesAsc([i \in 1..Len(pwa) |-> manifestIcon(pwa[i])])]

\* the callback of the fourth find reads `name`, which nothing declares: the
\* first icon whose size is 310 makes it throw a ReferenceError
browserConfigThrows(res) ==
  \E i \in 1..Len(res.icons) : res.icons[i].size = Num(310)

\* a <tag src="..."/> line for a tile that was found, no line otherwise
tileLine(tag, tile) ==
  IF tile = Undefined THEN <<>>
  ELSE <<[tag |-> tag, src |-> baseUrl \o <<Slash>> \o tile.name.s]>>

generateBrowserConfig(res) ==
  [kind |-> "browserconfig",
   tiles |-> tileLine("square70x70logo", findBySize(res.icons, 70))
             \o tileLine("square150x150logo", findBySize(res.icons, 144))
             \o tileLine("square150x150logo", findBySize(res.icons, 150))
             \o tileLine("square310x310logo", findBySize(res.icons, 310)),
   tileColor |-> <<"#", "f", "f", "f", "f", "f", "f">>]

(***************************************************************************)
(* src/src/index.js: generateIcon                                          *)
(***************************************************************************)
\* (mutant: the whole output path is searched, not its base name)
needsSolidBackground_fullPath(outputPath, size) ==
  Includes(outputPath, <<"i", "c", "o", "n", "-">>) /\ NumGe(size, 192)

\* (mutant: the size threshold is dropped)
needsSolidBackground_anySize(outputPath, size) ==
  Includes(basename(outputPath), <<"i", "c", "o", "n", "-">>)

needsSolidBackground(outputPath, size) ==
  Includes(basename(outputPath), <<"i", "c", "o", "n", "-">>) /\ NumGe(size, 192)

iconBackground(outputPath, size) ==
  IF needsSolidBackground(outputPath, size)
  THEN BACKGROUNDS.white
  ELSE BACKGROUNDS.transparent

\* sharp rejects a resize to anything but a positive integer and png options
\* that are not integers in 0..100 (quality) and 0..9 (compressionLevel)
sharpAccepts(size, opts) ==
  /\ IsInteger(size) /\ NumGt(size, 0)
  /\ IsInteger(opts.quality) /\ NumGe(opts.quality, 0) /\ NumLe(opts.quality, 100)
  /\ IsInteger(opts.compressionLevel)
  /\ NumGe(opts.compressionLevel, 0) /\ NumLe(opts.compressionLevel, 9)

\* the content of a PNG file written by sharp
pngFile(size, background) ==
  [kind |-> "png", size |-> size, background |-> background]

(***************************************************************************)
(* src/src/index.js: generateIcons, one action per awaited operation       *)
(***************************************************************************)
\* (mutant: the error is logged and the run goes on with the metadata)
Throw_swallowed(message) ==
  /\ pc' = "readPackageJson"
  /\ error' = message
  /\ consoleErr' = consoleErr + 1

\* the catch block: logger.error(...) and the error is thrown again
Throw(message) ==
  /\ pc' = "threw"
  /\ error' = message
  /\ consoleErr' = consoleErr + 1

\* (mutant: the entries are visited from the last to the first)
iconSizesOf_reversed(opts) ==
  [i \in 1..Len(opts.iconSizes.items) |->
     opts.iconSizes.items[Len(opts.iconSizes.items) + 1 - i]]

iconSizesOf(opts) == opts.iconSizes.items

\* (mutant: a silent run generates no favicon sizes)
faviconSizesOf_verboseOnly(opts) ==
  IF opts.verbose = Bool(FALSE) THEN <<>>
  ELSE CASE opts.faviconSizes.t = "array" -> opts.faviconSizes.items
         [] opts.faviconSizes.t = "string" ->
              [i \in 1..Len(opts.faviconSizes.s) |-> Str(<<opts.faviconSizes.s[i]>>)]
         [] OTHER -> <<>>

\* what `for (const size of sizes)` visits when options.faviconSizes?.length
\* is positive: the elements of an array, the characters of a string
faviconSizesOf(opts) ==
  CASE opts.faviconSizes.t = "array" -> opts.faviconSizes.items
    [] opts.faviconSizes.t = "string" ->
         [i \in 1..Len(opts.faviconSizes.s) |-> Str(<<opts.faviconSizes.s[i]>>)]
    [] OTHER -> <<>>

\* (mutant: the root favicons are generated whatever the option says)
pcAfterFavicons_always(opts) == "rootPng"

\* where the run continues after the favicon sizes
pcAfterFavicons(opts) ==
  IF Truthy(opts.generateRootFavicons) THEN "rootPng" ELSE "readPackageJson"

\* (mutant: generateFavicon is not consulted)
pcAfterIcons_ignoreFlag(opts) ==
  IF Len(faviconSizesOf(opts)) > 0
  THEN "faviconSizes"
  ELSE pcAfterFavicons(opts)

\* where the run continues after the loop over options.iconSizes
pcAfterIcons(opts) ==
  IF Truthy(opts.generateFavicon) /\ Len(faviconSizesOf(opts)) > 0
  THEN "faviconSizes"
  ELSE pcAfterFavicons(opts)

\* merge with the defaults, new Logger, validateOptions, logger.info
Validate ==
  /\ pc = "generateIcons"
  /\ LET merged == mergeOptions(DEFAULT_OPTIONS, userOptions)
     IN  /\ options' = merged
         /\ IF validateOptions(merged) # "ok"
            THEN /\ Throw(validateOptions(merged))
                 /\ UNCHANGED consoleOut
            ELSE /\ pc' = "fileExists"
                 /\ consoleOut' = consoleOut + logged(merged, 1)
                 /\ UNCHANGED <<error, consoleErr>>
  /\ UNCHANGED <<idleVars, entry, argv, lateVars>>
  /\ UNCHANGED <<userOptions, fsVars, svgBuffer, results, idx, renderLog>>

\* await fileExists(options.svgPath)
CheckSvgExists ==
  /\ pc = "fileExists"
  /\ IF ~pathExists(options.svgPath.s)
     THEN /\ Throw("SVG file not found")
          /\ UNCHANGED consoleOut
     ELSE /\ pc' = "readFile"
          /\ consoleOut' = consoleOut + logged(options, 1)
          /\ UNCHANGED <<error, consoleErr>>
  /\ UNCHANGED <<idleVars, entry, argv, lateVars>>
  /\ UNCHANGED <<userOptions, options, fsVars, svgBuffer, results, idx,
                 renderLog>>

\* await fs.readFile(options.svgPath): fails for a directory, or when the
\* read itself fails
ReadSvg ==
  /\ pc = "readFile"
  /\ \E ioOk \in BOOLEAN :
       IF ioOk /\ fsPath(options.svgPath.s) \in DOMAIN fsFiles
       THEN /\ svgBuffer' = fsFiles[fsPath(options.svgPath.s)]
            /\ pc' = "ensureDirectory"
            /\ UNCHANGED <<error, consoleErr>>
       ELSE /\ Throw("readFile failed")
            /\ UNCHANGED svgBuffer
  /\ UNCHANGED <<idleVars, entry, argv, lateVars>>
  /\ UNCHANGED <<userOptions, options, fsVars, results, idx, renderLog,
                 consoleOut>>

\* (mutant: one results object serves every call of generateIcons)
freshResults_reused(outputDir) ==
  IF results = <<>>
  THEN [icons |-> <<>>, faviconSizes |-> <<>>, outputDir |-> outputDir]
  ELSE [results EXCEPT !.outputDir = outputDir]

\* const results = { icons: [], faviconSizes: [], outputDir }
freshResults(outputDir) ==
  [icons |-> <<>>, faviconSizes |-> <<>>, outputDir |-> outputDir]

\* await ensureDirectory(options.outputDir), logger.log, the empty results
EnsureDirectory ==
  /\ pc = "ensureDirectory"
  /\ \E ioOk \in BOOLEAN :
       IF ioOk /\ canMkdir(options.outputDir.s)
       THEN /\ fsDirs' = fsDirs \cup ancestorsOf(fsPath(options.outputDir.s))
            /\ consoleOut' = consoleOut + logged(options, 1)
            /\ results' = freshResults(options.outputDir)
            /\ idx' = 0
            /\ pc' = "icons"
            /\ UNCHANGED <<error, consoleErr>>
       ELSE /\ Throw("Failed to create directory")
            /\ UNCHANGED <<fsDirs, consoleOut, results, idx>>
  /\ UNCHANGED <<idleVars, entry, argv, lateVars>>
  /\ UNCHANGED <<userOptions, options, fsFiles, writeLog, svgBuffer,
                 renderLog>>

\* one pass of the loop over options.iconSizes:
\* await generateIcon(svgBuffer, size, outputPath, options), results.icons.push
GenerateIcon ==
  /\ pc = "icons"
  /\ idx < Len(iconSizesOf(options))
  /\ LET icon == iconSizesOf(options)[idx + 1]
         outputPath == pathJoin(options.outputDir.s, icon.name.s)
         background == iconBackground(outputPath, icon.size)
         call == [kind |-> "icon", size |-> icon.size, path |-> outputPath,
                  background |-> background]
     IN  /\ renderLog' = Append(renderLog, call)
         /\ \E ioOk \in BOOLEAN :
              IF ioOk /\ sharpAccepts(icon.size, options) /\ canWriteFile(outputPath)
              THEN /\ fsFiles' = fileWritten(fsFiles, outputPath,
                                             pngFile(icon.size, background))
                   /\ writeLog' = Append(writeLog, fsPath(outputPath))
                   /\ results' = [results EXCEPT !.icons =
                                    Append(@, [size |-> icon.size,
                                               name |-> icon.name,
                                               path |-> outputPath])]
                   /\ consoleOut' = consoleOut + logged(options, 1)
                   /\ idx' = idx + 1
                   /\ pc' = IF idx + 1 = Len(iconSizesOf(options))
                            THEN pcAfterIcons(options) ELSE "icons"
                   /\ UNCHANGED <<error, consoleErr>>
              ELSE /\ Throw("generateIcon failed")
                   /\ UNCHANGED <<fsFiles, writeLog, results, consoleOut, idx>>
  /\ UNCHANGED <<idleVars, entry, argv, lateVars>>
  /\ UNCHANGED <<userOptions, options, fsDirs, svgBuffer>>

\* parseInt(path.basename(filePath).match(/\d+/)?.[0] || '0')
faviconSizeOf(filePath) == parseInt10(Str(firstDigits(basename(filePath))))

\* (mutant: the size is left out of the file name)
faviconFileName_noSize(size) == <<"f", "a", "v", "i", "c", "o", "n", ".", "p", "n", "g">>

\* `favicon-${size}.png`
faviconFileName(size) ==
  <<"f", "a", "v", "i", "c", "o", "n", "-">> \o toString(size) \o <<".", "p", "n", "g">>

\* one pass of the loop of generateFaviconSizes; after the last pass
\* generateIcons maps the paths into results.faviconSizes
GenerateFaviconSize ==
  /\ pc = "faviconSizes"
  /\ LET fsizes == faviconSizesOf(options)
         size == fsizes[Len(faviconFiles) + 1]
         outputPath == pathJoin(options.outputDir.s, faviconFileName(size))
         call == [kind |-> "favicon", size |-> size, path |-> outputPath,
                  background |-> BACKGROUNDS.transparent]
         generatedFiles == Append(faviconFiles, outputPath)
     IN  /\ renderLog' = Append(renderLog, call)
         /\ \E ioOk \in BOOLEAN :
              IF ioOk /\ sharpAccepts(size, options) /\ canWriteFile(outputPath)
              THEN /\ fsFiles' = fileWritten(fsFiles, outputPath,
                                             pngFile(size, BACKGROUNDS.transparent))
                   /\ writeLog' = Append(writeLog, fsPath(outputPath))
                   /\ faviconFiles' = generatedFiles
                   /\ IF Len(generatedFiles) = Len(fsizes)
                      THEN /\ results' =
                                [results EXCEPT !.faviconSizes =
                                   [i \in 1..Len(generatedFiles) |->
                                      [path |-> generatedFiles[i],
                                       size |-> faviconSizeOf(generatedFiles[i])]]]
                           /\ consoleOut' = consoleOut + logged(options, 1)
                           /\ pc' = pcAfterFavicons(options)
                      ELSE UNCHANGED <<results, consoleOut, pc>>
                   /\ UNCHANGED <<error, consoleErr>>
              ELSE /\ Throw("generateFaviconSizes failed")
                   /\ UNCHANGED <<fsFiles, writeLog, faviconFiles, results,
                                  consoleOut>>
  /\ UNCHANGED <<idleVars, entry, argv, userOptions, options, fsDirs,
                 svgBuffer, idx, icoJobs, packageJson>>

\* generateRootFavicons: favicon.png at options.faviconPngSize
GenerateRootPng ==
  /\ pc = "rootPng"
  /\ LET pngPath == pathJoin(options.outputDir.s, <<"f", "a", "v", "i", "c", "o", "n", ".", "p", "n", "g">>)
         call == [kind |-> "rootPng", size |-> options.faviconPngSize,
                  path |-> pngPath, background |-> BACKGROUNDS.transparent]
     IN  /\ renderLog' = Append(renderLog, call)
         /\ \E ioOk \in BOOLEAN :
              IF /\ ioOk
                 /\ sharpAccepts(options.faviconPngSize, options)
                 /\ canWriteFile(pngPath)
              THEN /\ fsFiles' = fileWritten(fsFiles, pngPath,
                                             pngFile(options.faviconPngSize,
                                                     BACKGROUNDS.transparent))
                   /\ writeLog' = Append(writeLog, fsPath(pngPath))
                   /\ pc' = "rootSvg"
                   /\ UNCHANGED <<error, consoleErr>>
              ELSE /\ Throw("generateRootFavicons failed")
                   /\ UNCHANGED <<fsFiles, writeLog>>
  /\ UNCHANGED <<idleVars, lateVars, entry, argv, userOptions, options, fsDirs,
                 svgBuffer, results, idx, consoleOut>>

\* (mutant: the two sizes change places)
IcoSizes_swapped == <<32, 16>>

\* const sizes = [16, 32] of generateRootFavicons
IcoSizes == <<16, 32>>

\* the bytes sharp returns from toBuffer for a render at the given size
pngBuffer(size) == <<137, 80, 78, 71>> \o [i \in 1..(size \div 16) |-> size]

\* generateRootFavicons: the SVG is copied to favicon.svg, then sizes.map
\* starts one render per ICO size and Promise.all waits for them
WriteRootSvg ==
  /\ pc = "rootSvg"
  /\ LET svgPath == pathJoin(options.outputDir.s, <<"f", "a", "v", "i", "c", "o", "n", ".", "s", "v", "g">>)
         icoPath == pathJoin(options.outputDir.s, <<"f", "a", "v", "i", "c", "o", "n", ".", "i", "c", "o">>)
         calls == [k \in 1..Len(IcoSizes) |->
                     [kind |-> "ico", size |-> Num(IcoSizes[k]), path |-> icoPath,
                      background |-> BACKGROUNDS.transparent]]
     IN  \E ioOk \in BOOLEAN :
           IF ioOk /\ canWriteFile(svgPath)
           THEN /\ fsFiles' = fileWritten(fsFiles, svgPath, svgBuffer)
                /\ writeLog' = Append(writeLog, fsPath(svgPath))
                /\ IF \A k \in 1..Len(IcoSizes) :
                        sharpAccepts(Num(IcoSizes[k]), options)
                   THEN /\ renderLog' = renderLog \o calls
                        /\ icoJobs' = [k \in 1..Len(IcoSizes) |->
                                         [state |-> "pending", buffer |-> <<>>]]
                        /\ pc' = "rootIco"
                        /\ UNCHANGED <<error, consoleErr>>
                   ELSE /\ Throw("generateRootFavicons failed")
                        /\ UNCHANGED <<renderLog, icoJobs>>
           ELSE /\ Throw("generateRootFavicons failed")
                /\ UNCHANGED <<fsFiles, writeLog, renderLog, icoJobs>>
  /\ UNCHANGED <<idleVars, entry, argv, userOptions, options, fsDirs,
                 svgBuffer, results, idx, consoleOut, faviconFiles, packageJson>>

\* (mutant: the await resumes with the first render that is fulfilled)
promiseAllFulfilled_first(jobs, k) == TRUE

\* Promise.all is fulfilled when render k is: every other render is done
promiseAllFulfilled(jobs, k) ==
  \A j \in (1..Len(jobs)) \ {k} : jobs[j].state = "done"

\* one of the renders under Promise.all settles; they settle in any order,
\* the first rejection rejects the whole, the last fulfilment resolves it
RenderIcoImage ==
  /\ pc = "rootIco"
  /\ \E k \in 1..Len(icoJobs) :
       /\ icoJobs[k].state = "pending"
       /\ \E ioOk \in BOOLEAN :
            IF ioOk
            THEN /\ icoJobs' = [icoJobs EXCEPT ![k] =
                                  [state |-> "done",
                                   buffer |-> pngBuffer(IcoSizes[k])]]
                 /\ pc' = IF promiseAllFulfilled(icoJobs, k)
                          THEN "writeIco" ELSE "rootIco"
                 /\ UNCHANGED <<error, consoleErr>>
            ELSE /\ Throw("generateRootFavicons failed")
                 /\ UNCHANGED icoJobs
  /\ UNCHANGED <<idleVars, entry, argv, userOptions, options, fsVars,
                 svgBuffer, results, idx, renderLog, consoleOut, faviconFiles,
                 packageJson>>

\* createIcoBuffer(pngBuffers, sizes), fs.writeFile(icoPath, icoBuffer), and
\* back in generateIcons results.rootFavicons and logger.success
WriteIco ==
  /\ pc = "writeIco"
  /\ LET pngPath == pathJoin(options.outputDir.s, <<"f", "a", "v", "i", "c", "o", "n", ".", "p", "n", "g">>)
         svgPath == pathJoin(options.outputDir.s, <<"f", "a", "v", "i", "c", "o", "n", ".", "s", "v", "g">>)
         icoPath == pathJoin(options.outputDir.s, <<"f", "a", "v", "i", "c", "o", "n", ".", "i", "c", "o">>)
         ico == createIcoBuffer([k \in 1..Len(icoJobs) |-> icoJobs[k].buffer],
                                IcoSizes)
     IN  \E ioOk \in BOOLEAN :
           IF ioOk /\ ~ico.threw /\ canWriteFile(icoPath)
           THEN /\ fsFiles' = fileWritten(fsFiles, icoPath,
                                          [kind |-> "bytes", bytes |-> ico.buf])
                /\ writeLog' = Append(writeLog, fsPath(icoPath))
                /\ results' = withField(results, "rootFavicons",
                                        [png |-> pngPath, svg |-> svgPath,
                                         ico |-> icoPath])
                /\ consoleOut' = consoleOut + logged(options, 1)
                /\ pc' = "readPackageJson"
                /\ UNCHANGED <<error, consoleErr>>
           ELSE /\ Throw("generateRootFavicons failed")
                /\ UNCHANGED <<fsFiles, writeLog, results, consoleOut>>
  /\ UNCHANGED <<idleVars, lateVars, entry, argv, userOptions, options, fsDirs,
                 svgBuffer, idx, renderLog>>

NoPackage == [kind |-> "none"]
BrokenPackage == [kind |-> "broken"]
Package(name, description) ==
  [kind |-> "json", name |-> name, description |-> description]

\* what the directories from the working directory upwards hold
PackageChainVals ==
  { <<>>,
    <<NoPackage, BrokenPackage>>,
    <<Package(Str(<<"m", "y", "-", "a", "p", "p">>), Undefined)>>,
    <<Package(Str(OwnPackageName), Str(<<"g", "e", "n", "e", "r", "a", "t", "o", "r">>)),
      Package(Str(<<"m", "y", "-", "a", "p", "p">>), Undefined)>>,
    <<BrokenPackage, Package(Str(OwnPackageName), Undefined)>> }

\* await readPackageJson() and the logger.log of its outcome
ReadPackageJson ==
  /\ pc = "readPackageJson"
  /\ \E chain \in PackageChainVals : packageJson' = readPackageJson(chain)
  /\ consoleOut' = consoleOut + logged(options, 1)
  /\ pc' = "writeHtml"
  /\ UNCHANGED <<idleVars, entry, argv, userOptions, options, fsVars,
                 svgBuffer, results, idx, renderLog, error, consoleErr,
                 faviconFiles, icoJobs>>

\* generateHtmlMetaTags(results, '/icons'), which sorts results.faviconSizes
\* in place, then fs.writeFile(htmlFilePath, ...)
WriteHtml ==
  /\ pc = "writeHtml"
  /\ LET htmlFilePath == pathJoin(options.outputDir.s, <<"m", "e", "t", "a", "-", "t", "a", "g", "s", ".", "h", "t", "m", "l">>)
         sorted == [results EXCEPT !.faviconSizes = faviconSizesSorted(results)]
     IN  \E ioOk \in BOOLEAN :
           IF ioOk /\ canWriteFile(htmlFilePath)
           THEN /\ fsFiles' = fileWritten(fsFiles, htmlFilePath,
                                          generateHtmlMetaTags(results))
                /\ writeLog' = Append(writeLog, fsPath(htmlFilePath))
                /\ results' = withField(sorted, "htmlFile", htmlFilePath)
                /\ consoleOut' = consoleOut + logged(options, 1)
                /\ pc' = "writeManifest"
                /\ UNCHANGED <<error, consoleErr>>
           ELSE /\ Throw("writeFile failed")
                /\ results' = sorted
                /\ UNCHANGED <<fsFiles, writeLog, consoleOut>>
  /\ UNCHANGED <<idleVars, lateVars, entry, argv, userOptions, options, fsDirs,
                 svgBuffer, idx, renderLog>>

\* generateManifestJson(results, { name, description, baseUrl }), then
\* fs.writeFile(manifestFilePath, ...)
WriteManifest ==
  /\ pc = "writeManifest"
  /\ LET manifestFilePath == pathJoin(options.outputDir.s, <<"m", "a", "n", "i", "f", "e", "s", "t", ".", "j", "s", "o", "n">>)
         manifestJson == generateManifestJson(results, appNameOf(packageJson),
                                              appDescriptionOf(packageJson))
     IN  \E ioOk \in BOOLEAN :
           IF ioOk /\ canWriteFile(manifestFilePath)
           THEN /\ fsFiles' = fileWritten(fsFiles, manifestFilePath, manifestJson)
                /\ writeLog' = Append(writeLog, fsPath(manifestFilePath))
                /\ results' = withField(results, "manifestFile", manifestFilePath)
                /\ consoleOut' = consoleOut + logged(options, 1)
                /\ pc' = "writeBrowserConfig"
                /\ UNCHANGED <<error, consoleErr>>
           ELSE /\ Throw("writeFile failed")
                /\ UNCHANGED <<fsFiles, writeLog, results, consoleOut>>
  /\ UNCHANGED <<idleVars, lateVars, entry, argv, userOptions, options, fsDirs,
                 svgBuffer, idx, renderLog>>

\* generateBrowserConfig(results, { tileColor, baseUrl }), then
\* fs.writeFile(browserConfigPath, ...), the closing logger.info lines and
\* return results
WriteBrowserConfig ==
  /\ pc = "writeBrowserConfig"
  /\ LET browserConfigPath == pathJoin(options.outputDir.s, <<"b", "r", "o", "w", "s", "e", "r", "c", "o", "n", "f", "i", "g", ".", "x", "m", "l">>)
     IN  IF browserConfigThrows(results)
         THEN /\ Throw("name is not defined")
              /\ UNCHANGED <<fsFiles, writeLog, results, consoleOut>>
         ELSE \E ioOk \in BOOLEAN :
                IF ioOk /\ canWriteFile(browserConfigPath)
                THEN /\ fsFiles' = fileWritten(fsFiles, browserConfigPath,
                                               generateBrowserConfig(results))
                     /\ writeLog' = Append(writeLog, fsPath(browserConfigPath))
                     /\ results' = withField(results, "browserConfigFile",
                                             browserConfigPath)
                     /\ consoleOut' = consoleOut + logged(options, 3)
                     /\ pc' = "returned"
                     /\ UNCHANGED <<error, consoleErr>>
                ELSE /\ Throw("writeFile failed")
                     /\ UNCHANGED <<fsFiles, writeLog, results, consoleOut>>
  /\ UNCHANGED <<idleVars, lateVars, entry, argv, userOptions, options, fsDirs,
                 svgBuffer, idx, renderLog>>

\* generateCustomIcons: generateIcons({ svgPath, outputDir,
\* iconSizes: customSizes, ...additionalOptions }); in the object literal a
\* key of additionalOptions replaces the key written before the spread
GenerateCustomIcons ==
  /\ pc = "generateCustomIcons"
  /\ userOptions' =
       mergeOptions([NoOptions EXCEPT !.svgPath = customArgs.svgPath,
                                      !.outputDir = customArgs.outputDir,
                                      !.iconSizes = customArgs.customSizes],
                    customArgs.additionalOptions)
  /\ pc' = "generateIcons"
  /\ UNCHANGED <<idleVars, lateVars, entry, argv, options, fsVars, svgBuffer,
                 results, idx, renderLog, error, logVars>>

\* what the caller of a finished run has in hand: the promise's outcome, the
\* file system, and what the run had done when it ended
runRecord(second) ==
  [ended |-> TRUE, second |-> second, userOptions |-> userOptions,
   pc |-> pc, error |-> error,
   results |-> results, fsDirs |-> fsDirs, fsFiles |-> fsFiles,
   writeLog |-> writeLog, renderLog |-> renderLog, svgBuffer |-> svgBuffer,
   idx |-> idx, faviconFiles |-> faviconFiles, icoJobs |-> icoJobs,
   packageJson |-> packageJson]

\* the same object with the other value of verbose
otherVerbose(uo) ==
  [uo EXCEPT !.verbose =
     IF loggerVerbose(mergeOptions(DEFAULT_OPTIONS, uo))
     THEN Bool(FALSE) ELSE Bool(TRUE)]

\* a new call of generateIcons starts: nothing of the call before is passed
\* to it but the caller's object and the file system
callGenerateIcons ==
  /\ pc' = "generateIcons"
  /\ options' = <<>>
  /\ writeLog' = <<>>
  /\ svgBuffer' = <<>>
  /\ idx' = 0
  /\ renderLog' = <<>>
  /\ error' = "none"
  /\ faviconFiles' = <<>>
  /\ icoJobs' = <<>>
  /\ packageJson' = <<>>

\* the caller runs generateIcons a second time with the same object, on the
\* file system the first run left
RunAgain ==
  /\ pc \in {"returned", "threw"}
  /\ firstRun # <<>> /\ ~firstRun.ended
  /\ firstRun' = runRecord("same")
  /\ callGenerateIcons
  /\ UNCHANGED <<icoVars, valVars, customArgs, entry, argv, userOptions,
                 fsDirs, fsFiles, results, logVars>>

\* the caller runs generateIcons a second time with the other value of
\* verbose, on the file system the first run started from
RunWithOtherVerbose ==
  /\ pc \in {"returned", "threw"}
  /\ firstRun # <<>> /\ ~firstRun.ended
  /\ firstRun' = runRecord("otherVerbose")
  /\ userOptions' = otherVerbose(userOptions)
  /\ fsDirs' = firstRun.startDirs
  /\ fsFiles' = firstRun.startFiles
  /\ callGenerateIcons
  /\ UNCHANGED <<icoVars, valVars, customArgs, entry, argv, results, logVars>>

(***************************************************************************)
(* src/bin/cli.js: main, promptForConfig                                   *)
(***************************************************************************)
PromptSvgPathVals ==
  { EmptyStr, <<"f", "a", "v", "i", "c", "o", "n", ".", "s", "v", "g">>,
    <<"a", "r", "t", "/", "l", "o", "g", "o", ".", "s", "v", "g">>,
    <<".", "s", "v", "g">>,
    <<"F", "A", "V", "I", "C", "O", "N", ".", "S", "V", "G">> }

PromptOutputDirVals == { EmptyStr, <<".", "/", "i", "c", "o", "n", "s">> }

PromptQualityVals == { NaN, Num(0), Num(95), Num(101) }

PromptCompressionLevelVals == { NaN, Num(9), Num(10) }

\* the validate callbacks of the prompt: TRUE when the answer is accepted
promptAcceptsSvgPath(input) ==
  input # EmptyStr /\ EndsWith(input, <<".", "s", "v", "g">>) /\ pathExists(input)

promptAcceptsOutputDir(input) == input # EmptyStr

promptAcceptsQuality(num) == ~(num = NaN \/ NumLt(num, 1) \/ NumGt(num, 100))

promptAcceptsCompressionLevel(num) ==
  ~(num = NaN \/ NumLt(num, 0) \/ NumGt(num, 9))

\* main: parseArgs; -h prints the help and exits, -v starts the
\* asynchronous read of package.json and exits before it can print; with no
\* option the prompt is next, else generateIcons({...DEFAULT_OPTIONS, ...})
Main ==
  /\ pc = "main"
  /\ LET parsed == parseArgs(argv)
     IN  CASE parsed.exit = "help" ->
                /\ pc' = "exit0"
                /\ consoleOut' = consoleOut + 1
                /\ UNCHANGED userOptions
           [] parsed.exit = "version" ->
                /\ pc' = "exit0"
                /\ UNCHANGED <<consoleOut, userOptions>>
           [] parsed.exit = "none" /\ parsed.options = NoOptions ->
                /\ pc' = "prompt"
                /\ UNCHANGED <<consoleOut, userOptions>>
           [] OTHER ->
                /\ pc' = "generateIcons"
                /\ userOptions' = mergeOptions(DEFAULT_OPTIONS, parsed.options)
                /\ UNCHANGED consoleOut
  /\ UNCHANGED <<idleVars, lateVars, entry, argv, options, fsVars, svgBuffer, results,
                 idx, renderLog, error, consoleErr>>

\* promptForConfig: the answers are those the validate callbacks accept
PromptForConfig ==
  /\ pc = "prompt"
  /\ \E sp \in PromptSvgPathVals, od \in PromptOutputDirVals,
        q \in PromptQualityVals, cl \in PromptCompressionLevelVals,
        gf \in BOOLEAN :
       /\ promptAcceptsSvgPath(sp)
       /\ promptAcceptsOutputDir(od)
       /\ promptAcceptsQuality(q)
       /\ promptAcceptsCompressionLevel(cl)
       /\ userOptions' = [NoOptions EXCEPT !.svgPath = Str(sp),
                                           !.outputDir = Str(od),
                                           !.quality = q,
                                           !.compressionLevel = cl,
                                           !.generateFavicon = Bool(gf)]
  /\ pc' = "generateIcons"
  /\ consoleOut' = consoleOut + 1
  /\ UNCHANGED <<idleVars, lateVars, entry, argv, options, fsVars, svgBuffer, results,
                 idx, renderLog, error, consoleErr>>

\* main after generateIcons: the summary and exit(0), or the error and exit(1)
MainExit ==
  /\ entry = "cli"
  /\ pc \in {"returned", "threw"}
  /\ IF pc = "returned"
     THEN /\ pc' = "exit0"
          /\ consoleOut' = consoleOut
                             + (IF Len(results.faviconSizes) > 0 THEN 4 ELSE 3)
          /\ UNCHANGED consoleErr
     ELSE /\ pc' = "exit1"
          /\ consoleErr' = consoleErr + 1
          /\ UNCHANGED consoleOut
  /\ UNCHANGED <<idleVars, lateVars, entry, argv, userOptions, options, fsVars,
                 svgBuffer, results, idx, renderLog, error>>

(***************************************************************************)
(* Spec: generation runs on bounded configurations and file systems.       *)
(***************************************************************************)
MaxIcons == 2

GenSvgPathVals ==
  { Absent, Str(<<"a", "r", "t", "/", "l", "o", "g", "o", ".", "s", "v", "g">>) }

GenOutputDirVals == { Absent, Str(EmptyStr) }

GenIconEntryVals ==
  { IconEntry(Num(192), Str(<<"i", "c", "o", "n", "-", "1", "9", "2", "x", "1", "9", "2", ".", "p", "n", "g">>)),
    IconEntry(Num(191), Str(<<"i", "c", "o", "n", "-", "1", "9", "1", ".", "p", "n", "g">>)),
    IconEntry(Num(192), Str(<<"a", "p", "p", "l", "e", "-", "t", "o", "u", "c", "h", "-", "i", "c", "o", "n", "-", "1", "9", "2", "x", "1", "9", "2", ".", "p", "n", "g">>)),
    IconEntry(Num(512), Str(<<"i", "c", "o", "n", "-", "s", "e", "t", "/", "l", "o", "g", "o", ".", "p", "n", "g">>)),
    IconEntry(Num(310), Str(<<"t", "i", "l", "e", "-", "3", "1", "0", ".", "p", "n", "g">>)),
    IconEntry(Num(0), Str(<<"z", "e", "r", "o", ".", "p", "n", "g">>)) }

GenIconSizesVals ==
  {Absent} \cup {Arr(l) : l \in SeqsUpTo(GenIconEntryVals, MaxIcons)}

\* entries named like files the later steps of a run write
GenFixedNameEntryVals ==
  { IconEntry(Num(48), Str(<<"f", "a", "v", "i", "c", "o", "n", ".", "p", "n", "g">>)),
    IconEntry(Num(16), Str(<<"f", "a", "v", "i", "c", "o", "n", "-", "1", "6", ".", "p", "n", "g">>)) }

GenQualityVals == { Absent, NaN }

GenCompressionLevelVals == { Absent, NaN }

GenVerboseVals == { Absent, Bool(FALSE) }

GenFlagVals == { Absent, Bool(FALSE) }

GenFaviconSizesVals == { Absent, Arr(<<>>) }

GenFaviconPngSizeVals == { Absent, Num(48) }

UserOptionsOf(sp, od, is, q, cl, vb, gf, fs, rf, fp) ==
  [k \in OptionKeys |->
     CASE k = "svgPath" -> sp
       [] k = "outputDir" -> od
       [] k = "iconSizes" -> is
       [] k = "quality" -> q
       [] k = "compressionLevel" -> cl
       [] k = "verbose" -> vb
       [] k = "generateFavicon" -> gf
       [] k = "faviconSizes" -> fs
       [] k = "generateRootFavicons" -> rf
       [] k = "faviconPngSize" -> fp]

\* the objects a caller passes: those that vary what validateOptions looks
\* at, those that vary what is generated, and those whose icons are named
\* like the favicon files
UserOptionsVals ==
  { UserOptionsOf(sp, od, is, q, cl, vb, Absent, Absent, Absent, Absent) :
      sp \in GenSvgPathVals, od \in GenOutputDirVals, is \in GenIconSizesVals,
      q \in GenQualityVals, cl \in GenCompressionLevelVals,
      vb \in GenVerboseVals }
  \cup
  { UserOptionsOf(Absent, Absent, is, Absent, Absent, vb, gf, fs, rf, fp) :
      is \in GenIconSizesVals, vb \in GenVerboseVals, gf \in GenFlagVals,
      fs \in GenFaviconSizesVals, rf \in GenFlagVals,
      fp \in GenFaviconPngSizeVals }
  \cup
  { UserOptionsOf(Absent, Absent, Arr(l), Absent, Absent, Absent, gf, Absent,
                  rf, Absent) :
      l \in SeqsUpTo(GenFixedNameEntryVals, MaxIcons) \ {<<>>},
      gf \in GenFlagVals, rf \in GenFlagVals }

SvgBytes == <<60, 115, 118, 103, 62>>

svgFile == [kind |-> "bytes", bytes |-> SvgBytes]

\* the working directory is the root of the relative paths
CwdDir == <<Dot>>

FsDirsVals ==
  { {CwdDir},
    {CwdDir, <<"i", "c", "o", "n", "s">>,
     <<"i", "c", "o", "n", "s", "/", "i", "c", "o", "n", "-", "s", "e", "t">>} }

FsFilesVals ==
  { [q \in {} |-> svgFile],
    [q \in {<<"f", "a", "v", "i", "c", "o", "n", ".", "s", "v", "g">>,
             <<"F", "A", "V", "I", "C", "O", "N", ".", "S", "V", "G">>,
             <<".", "s", "v", "g">>} |-> svgFile] }

\* the arguments of generateCustomIcons(svgPath, outputDir, customSizes,
\* additionalOptions)
CustomSvgPathVals == { Str(<<"f", "a", "v", "i", "c", "o", "n", ".", "s", "v", "g">>) }

CustomOutputDirVals == { Str(<<"i", "c", "o", "n", "s">>) }

CustomEntryVals ==
  { IconEntry(Num(48), Str(<<"c", "u", "s", "t", "o", "m", "-", "4", "8", ".", "p", "n", "g">>)),
    IconEntry(Num(96), Str(<<"c", "u", "s", "t", "o", "m", "-", "9", "6", ".", "p", "n", "g">>)) }

CustomSizesVals == { Arr(l) : l \in SeqsUpTo(CustomEntryVals, MaxIcons) }

AdditionalOptionsVals ==
  { NoOptions,
    [NoOptions EXCEPT !.verbose = Bool(FALSE)],
    [NoOptions EXCEPT !.quality = Num(90), !.compressionLevel = Num(7)],
    [NoOptions EXCEPT !.svgPath = Str(<<"F", "A", "V", "I", "C", "O", "N", ".", "S", "V", "G">>)],
    [NoOptions EXCEPT !.outputDir = Str(<<"o", "u", "t">>)],
    [NoOptions EXCEPT !.iconSizes =
       Arr(<<IconEntry(Num(64), Str(<<"c", "u", "s", "t", "o", "m", "-", "6", "4", ".", "p", "n", "g">>))>>)] }

CustomArgsVals ==
  [svgPath : CustomSvgPathVals, outputDir : CustomOutputDirVals,
   customSizes : CustomSizesVals, additionalOptions : AdditionalOptionsVals]

ArgvVals ==
  { <<>>,
    <<<<"-", "q">>, <<"a", "b", "c">>>>,
    <<<<"-", "-", "q", "u", "a", "l", "i", "t", "y">>>>,
    <<<<"-", "c">>, <<"x", "9">>, <<"-", "-", "s", "i", "l", "e", "n", "t">>>>,
    <<<<"-", "q">>, <<"9", "0">>, <<"-", "-", "c", "o", "m", "p", "r", "e", "s", "s", "i", "o", "n">>, <<" ", "5">>>>,
    <<<<"-", "q">>, <<"1", "5", "0">>>>,
    <<<<"-", "i">>, <<"a", "r", "t", "/", "l", "o", "g", "o", ".", "s", "v", "g">>, <<"-", "o">>, <<"o", "u", "t">>>>,
    <<<<"-", "-", "n", "o", "-", "f", "a", "v", "i", "c", "o", "n">>, <<"i", "c", "o", "n", ".", "s", "v", "g">>, <<"-", "i">>>>,
    <<<<"-", "-", "s", "i", "l", "e", "n", "t">>, <<"-", "v">>, <<"-", "q">>>>,
    <<<<"-", "-", "h", "e", "l", "p">>>> }

GenInit ==
  /\ \/ /\ entry = "api"
        /\ pc = "generateIcons"
        /\ argv = <<>>
        /\ userOptions \in UserOptionsVals
        /\ customArgs = <<>>
     \/ /\ entry = "cli"
        /\ pc = "main"
        /\ argv \in ArgvVals
        /\ userOptions = <<>>
        /\ customArgs = <<>>
     \/ /\ entry = "custom"
        /\ pc = "generateCustomIcons"
        /\ argv = <<>>
        /\ userOptions = <<>>
        /\ customArgs \in CustomArgsVals
  /\ firstRun = <<>>
  /\ options = <<>>
  /\ fsDirs \in FsDirsVals
  /\ fsFiles \in FsFilesVals
  /\ writeLog = <<>>
  /\ svgBuffer = <<>>
  /\ results = <<>>
  /\ idx = 0
  /\ renderLog = <<>>
  /\ error = "none"
  /\ consoleOut = 0
  /\ consoleErr = 0
  /\ faviconFiles = <<>>
  /\ icoJobs = <<>>
  /\ packageJson = <<>>
  /\ IcoIdle
  /\ ValIdle

Next ==
  \/ GenerateCustomIcons
  \/ Main
  \/ PromptForConfig
  \/ MainExit
  \/ Validate
  \/ CheckSvgExists
  \/ ReadSvg
  \/ EnsureDirectory
  \/ GenerateIcon
  \/ GenerateFaviconSize
  \/ GenerateRootPng
  \/ WriteRootSvg
  \/ RenderIcoImage
  \/ WriteIco
  \/ ReadPackageJson
  \/ WriteHtml
  \/ WriteManifest
  \/ WriteBrowserConfig

Spec == GenInit /\ [][Next]_vars

(***************************************************************************)
(* RerunSpec: a caller runs generateIcons twice.                           *)
(***************************************************************************)
RerunEntryVals ==
  { IconEntry(Num(192), Str(<<"i", "c", "o", "n", "-", "1", "9", "2", "x", "1", "9", "2", ".", "p", "n", "g">>)),
    IconEntry(Num(191), Str(<<"i", "c", "o", "n", "-", "1", "9", "1", ".", "p", "n", "g">>)) }

RerunOptionsVals ==
  { UserOptionsOf(Absent, Absent, Arr(l), Absent, Absent, vb, Absent, Absent,
                  rf, Absent) :
      l \in SeqsUpTo(RerunEntryVals, MaxIcons), vb \in GenVerboseVals,
      rf \in GenFlagVals }

RerunInit ==
  /\ entry = "api"
  /\ pc = "generateIcons"
  /\ argv = <<>>
  /\ userOptions \in RerunOptionsVals
  /\ customArgs = <<>>
  /\ options = <<>>
  /\ fsDirs = {CwdDir}
  /\ fsFiles \in FsFilesVals
  /\ firstRun = [ended |-> FALSE, userOptions |-> userOptions,
                 startDirs |-> fsDirs, startFiles |-> fsFiles]
  /\ writeLog = <<>>
  /\ svgBuffer = <<>>
  /\ results = <<>>
  /\ idx = 0
  /\ renderLog = <<>>
  /\ error = "none"
  /\ consoleOut = 0
  /\ consoleErr = 0
  /\ faviconFiles = <<>>
  /\ icoJobs = <<>>
  /\ packageJson = <<>>
  /\ IcoIdle
  /\ ValIdle

RerunNext ==
  \/ Validate
  \/ CheckSvgExists
  \/ ReadSvg
  \/ EnsureDirectory
  \/ GenerateIcon
  \/ GenerateFaviconSize
  \/ GenerateRootPng
  \/ WriteRootSvg
  \/ RenderIcoImage
  \/ WriteIco
  \/ ReadPackageJson
  \/ WriteHtml
  \/ WriteManifest
  \/ WriteBrowserConfig
  \/ RunAgain
  \/ RunWithOtherVerbose

RerunSpec == RerunInit /\ [][RerunNext]_vars

(***************************************************************************)
(* Reading an ICO file back: the decoder the claims are stated with.       *)
(***************************************************************************)
readUInt8(buf, off) == buf[off + 1]
readUInt16LE(buf, off) == buf[off + 1] + 256 * buf[off + 2]
readUInt32LE(buf, off) ==
  buf[off + 1] + 256 * buf[off + 2] + 65536 * buf[off + 3]
    + 16777216 * buf[off + 4]
bytesAt(buf, off, n) == [j \in 1..n |-> buf[off + j]]

\* position of directory entry k (0-based) in an ICO file
EntryAt(k) == 6 + 16 * k
EntryWidth(buf, k) == readUInt8(buf, EntryAt(k))
EntryHeight(buf, k) == readUInt8(buf, EntryAt(k) + 1)
EntryColorCount(buf, k) == readUInt8(buf, EntryAt(k) + 2)
EntryReserved(buf, k) == readUInt8(buf, EntryAt(k) + 3)
EntryPlanes(buf, k) == readUInt16LE(buf, EntryAt(k) + 4)
EntryBitCount(buf, k) == readUInt16LE(buf, EntryAt(k) + 6)
EntryDataSize(buf, k) == readUInt32LE(buf, EntryAt(k) + 8)
EntryDataOffset(buf, k) == readUInt32LE(buf, EntryAt(k) + 12)

RECURSIVE SumOfLengths(_, _)
SumOfLengths(bufs, k) ==
  IF k = 0 THEN 0 ELSE SumOfLengths(bufs, k - 1) + Len(bufs[k])

NumImages == Len(pngBuffers)

\* every buffer has a declared size, and it is in 1..256
SizesInContract ==
  /\ Len(sizes) >= NumImages
  /\ \A i \in 1..NumImages : sizes[i] \in 1..256

\* C1: for a non-empty list of buffers with sizes in 1..256 createIcoBuffer
\* returns a buffer that starts with 00 00 01 00 and whose 16-bit
\* little-endian value at offsets 4-5 is the number of input buffers.
C1_HeaderAndCount ==
  (icoPc # "call" /\ NumImages >= 1 /\ SizesInContract) =>
    /\ icoPc = "returned"
    /\ Len(icoBuffer) >= 6
    /\ bytesAt(icoBuffer, 0, 4) = <<0, 0, 1, 0>>
    /\ readUInt16LE(icoBuffer, 4) = NumImages

C1_Witness ==
  /\ icoPc = "returned" /\ NumImages = 2 /\ SizesInContract
  /\ readUInt16LE(icoBuffer, 4) = 2

\* C2: in directory entry k the 32-bit image offset is
\* 6 + 16*N + the sum of the lengths of buffers 0..k-1.
C2_OffsetLaw ==
  icoPc = "returned" =>
    \A k \in 0..(NumImages - 1) :
      EntryDataOffset(icoBuffer, k)
        = 6 + 16 * NumImages + SumOfLengths(pngBuffers, k)

C2_Witness ==
  /\ icoPc = "returned" /\ NumImages = 2
  /\ Len(pngBuffers[1]) = 2
  /\ EntryDataOffset(icoBuffer, 1) = 40

\* C3: round trip: entry i declares the length of input buffer i and the
\* bytes found at its offset are input buffer i, for every i in input order.
C3_RoundTrip ==
  icoPc = "returned" =>
    \A i \in 0..(NumImages - 1) :
      /\ EntryDataSize(icoBuffer, i) = Len(pngBuffers[i + 1])
      /\ EntryDataOffset(icoBuffer, i) + EntryDataSize(icoBuffer, i)
           <= Len(icoBuffer)
      /\ bytesAt(icoBuffer, EntryDataOffset(icoBuffer, i),
                 EntryDataSize(icoBuffer, i)) = pngBuffers[i + 1]

C3_Witness ==
  /\ icoPc = "returned" /\ NumImages = 2
  /\ pngBuffers[1] = <<255, 0>> /\ pngBuffers[2] = <<0, 255>>
  /\ bytesAt(icoBuffer, 38, 4) = <<255, 0, 0, 255>>

\* C4: in every entry the width byte equals the height byte; it is the
\* declared size for sizes 1..255 and 0 for the size 256.
C4_DimensionBytes ==
  icoPc = "returned" =>
    \A i \in 0..(NumImages - 1) :
      /\ EntryWidth(icoBuffer, i) = EntryHeight(icoBuffer, i)
      /\ sizes[i + 1] \in 1..255 => EntryWidth(icoBuffer, i) = sizes[i + 1]
      /\ sizes[i + 1] = 256 => EntryWidth(icoBuffer, i) = 0

C4_Witness ==
  /\ icoPc = "returned" /\ NumImages = 2
  /\ sizes[1] = 255 /\ sizes[2] = 256
  /\ EntryWidth(icoBuffer, 0) = 255 /\ EntryWidth(icoBuffer, 1) = 0

\* C5: the declared data regions are pairwise disjoint, adjacent in input
\* order without gap, start at 6 + 16*N and end at the end of the buffer;
\* the output length is 6 + 16*N + the sum of the input lengths.
RegionStart(k) == EntryDataOffset(icoBuffer, k)
RegionEnd(k) == EntryDataOffset(icoBuffer, k) + EntryDataSize(icoBuffer, k)

C5_RegionsTile ==
  icoPc = "returned" =>
    /\ Len(icoBuffer)
         = 6 + 16 * NumImages + SumOfLengths(pngBuffers, NumImages)
    /\ NumImages >= 1 =>
         /\ RegionStart(0) = 6 + 16 * NumImages
         /\ RegionEnd(NumImages - 1) = Len(icoBuffer)
    /\ \A k \in 0..(NumImages - 2) : RegionStart(k + 1) = RegionEnd(k)
    /\ \A j, k \in 0..(NumImages - 1) :
         j < k => RegionEnd(j) <= RegionStart(k)

C5_Witness ==
  /\ icoPc = "returned" /\ NumImages = 2
  /\ Len(pngBuffers[1]) = 1 /\ Len(pngBuffers[2]) = 2
  /\ Len(icoBuffer) = 41

\* C6: every entry has colorCount 0, reserved 0, planes 1 and 32 bits per
\* pixel, whatever the buffers and sizes are.
C6_FixedFields ==
  icoPc = "returned" =>
    \A i \in 0..(NumImages - 1) :
      /\ EntryColorCount(icoBuffer, i) = 0
      /\ EntryReserved(icoBuffer, i) = 0
      /\ EntryPlanes(icoBuffer, i) = 1
      /\ EntryBitCount(icoBuffer, i) = 32

C6_Witness ==
  /\ icoPc = "returned" /\ NumImages = 2
  /\ sizes[1] = 1 /\ Len(pngBuffers[2]) = 0
  /\ EntryBitCount(icoBuffer, 1) = 32

(***************************************************************************)
(* Claims about validateOptions.                                           *)
(***************************************************************************)
IsMissing(v) == v.t \in {"undefined", "null", "absent"}

\* the file name of the path ends in ".svg", in any letter case
HasSvgExtension(path) ==
  LET t == StripTrailingSlashes(path)
  IN  /\ Len(t) >= 4
      /\ toLowerCase(SubSeq(t, Len(t) - 3, Len(t))) = <<".", "s", "v", "g">>

SvgPathRejectable(o) ==
  \/ IsMissing(o.svgPath)
  \/ o.svgPath = Str(EmptyStr)
  \/ o.svgPath.t = "string" /\ ~HasSvgExtension(o.svgPath.s)

OutputDirRejectable(o) == o.outputDir = Str(EmptyStr)

IconSizesRejectable(o) ==
  \/ o.iconSizes.t # "array"
  \/ o.iconSizes.items = <<>>
  \/ \E i \in 1..Len(o.iconSizes.items) :
       LET icon == o.iconSizes.items[i]
       IN  \/ icon.size.t = "number" /\ NumLe(icon.size, 0)
           \/ IsMissing(icon.name)

\* C9: validateOptions throws whenever the object it receives has a missing
\* or empty svgPath, an svgPath without the .svg extension (any letter
\* case), an empty outputDir, an iconSizes that is not a non-empty array, or
\* an entry with a non-positive size or a missing name; it returns for
\* DEFAULT_OPTIONS.
C9_InvalidOptionsThrow ==
  valPc = "done" =>
    /\ ( \/ SvgPathRejectable(valChecked)
         \/ OutputDirRejectable(valChecked)
         \/ IconSizesRejectable(valChecked) ) => valResult # "ok"
    /\ valChecked = DEFAULT_OPTIONS => valResult = "ok"

C9_Witness ==
  /\ valPc = "done"
  /\ valChecked.svgPath = Str(<<"L", "O", "G", "O", ".", "S", "V", "G">>)
  /\ valChecked.outputDir = Str(<<"o", "u", "t">>)
  /\ valChecked.iconSizes.t = "array"
  /\ Len(valChecked.iconSizes.items) = 2
  /\ valChecked.iconSizes.items[2].name = Undefined
  /\ valResult = "Each icon must have a valid name"

(***************************************************************************)
(* Claims about the background of the rendered icons.  The i-th completed  *)
(* pass of the icon loop rendered options.iconSizes[i]; renderLog[i] holds *)
(* the background that was handed to sharp.                                *)
(***************************************************************************)
RenderedIcons == 1..Len(results.icons)

UsesWhite(i) == renderLog[i].background = BACKGROUNDS.white
UsesTransparent(i) == renderLog[i].background = BACKGROUNDS.transparent

IconsRendering ==
  /\ pc \notin {"idle", "generateCustomIcons", "generateIcons", "fileExists",
              "readFile", "ensureDirectory"}
  /\ results # <<>>

\* C7 (as stated): an entry is rendered on white if and only if its name
\* contains "icon-" and its size is at least 192, otherwise transparent.
C7_WhiteIffNameAndSize ==
  IconsRendering =>
    \A i \in RenderedIcons :
      LET icon == iconSizesOf(options)[i]
      IN  /\ UsesWhite(i) <=>
               (Includes(icon.name.s, <<"i", "c", "o", "n", "-">>) /\ NumGe(icon.size, 192))
          /\ UsesWhite(i) \/ UsesTransparent(i)

\* C7 (amended): an entry is rendered on white if and only if the file name
\* of its output path, the last component of join(outputDir, name), contains
\* "icon-" and its size is at least 192, otherwise transparent.
C7_WhiteIffFileNameAndSize ==
  IconsRendering =>
    \A i \in RenderedIcons :
      LET icon == iconSizesOf(options)[i]
          outputPath == pathJoin(options.outputDir.s, icon.name.s)
          fileName == SubSeq(StripTrailingSlashes(outputPath),
                             LastIndexOf(StripTrailingSlashes(outputPath), Slash) + 1,
                             Len(StripTrailingSlashes(outputPath)))
      IN  /\ UsesWhite(i) <=>
               (Includes(fileName, <<"i", "c", "o", "n", "-">>) /\ NumGe(icon.size, 192))
          /\ UsesWhite(i) \/ UsesTransparent(i)

C7_Witness ==
  /\ IconsRendering
  /\ Len(results.icons) = 2
  /\ results.icons[1].name = Str(<<"i", "c", "o", "n", "-", "1", "9", "1", ".", "p", "n", "g">>)
  /\ results.icons[1].size = Num(191)
  /\ UsesTransparent(1)
  /\ results.icons[2].name = Str(<<"i", "c", "o", "n", "-", "s", "e", "t", "/", "l", "o", "g", "o", ".", "p", "n", "g">>)
  /\ results.icons[2].size = Num(512)
  /\ UsesTransparent(2)

IsAppleTouchIconName(name) == StartsWith(name, <<"a", "p", "p", "l", "e", "-", "t", "o", "u", "c", "h", "-", "i", "c", "o", "n">>)

\* C8 (as stated): an artifact with an Apple-touch-icon name is rendered
\* with the transparent background, whatever its size.
C8_AppleAlwaysTransparent ==
  IconsRendering =>
    \A i \in RenderedIcons :
      IsAppleTouchIconName(iconSizesOf(options)[i].name.s) => UsesTransparent(i)

\* C8 (amended): an artifact with an Apple-touch-icon name and a size below
\* 192 is rendered with the transparent background; that covers every
\* Apple-touch-icon entry of DEFAULT_ICON_SIZES.
C8_AppleBelow192Transparent ==
  /\ IconsRendering =>
       \A i \in RenderedIcons :
         LET icon == iconSizesOf(options)[i]
         IN  (IsAppleTouchIconName(icon.name.s) /\ NumLt(icon.size, 192))
               => UsesTransparent(i)
  /\ \A k \in 1..Len(DEFAULT_ICON_SIZES) :
       IsAppleTouchIconName(DEFAULT_ICON_SIZES[k].name.s)
         => NumLt(DEFAULT_ICON_SIZES[k].size, 192)

C8_Witness ==
  /\ IconsRendering
  /\ options.iconSizes = Arr(DEFAULT_ICON_SIZES)
  /\ Len(results.icons) = 13
  /\ \A i \in 1..9 : IsAppleTouchIconName(results.icons[i].name.s) /\ UsesTransparent(i)
  /\ \A i \in 10..13 : UsesWhite(i)

(***************************************************************************)
(* Claims about quality and compressionLevel.                              *)
(***************************************************************************)
QualityInRange(v) == v.t = "number" /\ NumGe(v, 1) /\ NumLe(v, 100)
CompressionLevelInRange(v) == v.t = "number" /\ NumGe(v, 0) /\ NumLe(v, 9)

Validated ==
  pc \notin {"idle", "main", "prompt", "generateCustomIcons", "generateIcons"}

ConfigurationErrors ==
  {"svgPath is required", "ERR_INVALID_ARG_TYPE",
   "svgPath must be an SVG file", "outputDir is required",
   "iconSizes must be a non-empty array",
   "Each icon must have a valid positive size",
   "Each icon must have a valid name",
   "quality must be a number between 1 and 100",
   "compressionLevel must be a number between 0 and 9"}

RunFailed == pc \in {"threw", "exit1"}

\* the run has created a directory: the directories are none of the sets a
\* run starts with
DirectoryCreated == fsDirs \notin FsDirsVals

\* the run ended because of an option value: validateOptions threw, or
\* sharp refused the size, quality or compressionLevel of the render of the
\* icon or favicon size whose turn it was
FailedOnOptionValue ==
  \/ error \in ConfigurationErrors
  \/ /\ error = "generateIcon failed"
     /\ ~sharpAccepts(iconSizesOf(options)[idx + 1].size, options)
  \/ /\ error = "generateFaviconSizes failed"
     /\ ~sharpAccepts(faviconSizesOf(options)[Len(faviconFiles) + 1], options)

\* C11: when a run fails because of an invalid option value, no directory
\* has been created and no file has been written (and no render has
\* completed) before the failure.
C11_InvalidOptionFailsBeforeMutation ==
  (RunFailed /\ FailedOnOptionValue) =>
    /\ ~DirectoryCreated
    /\ writeLog = <<>>

\* the path names nothing in the file system
NothingAt(p) == fsPath(p) \notin fsDirs /\ fsPath(p) \notin DOMAIN fsFiles

\* generateIcons has merged its options and gone past await fileExists
PastFileExists ==
  /\ options # <<>>
  /\ pc \notin {"idle", "main", "prompt", "generateCustomIcons", "generateIcons",
              "fileExists"}

\* C12: when validateOptions has accepted the options and nothing exists at
\* svgPath, the run fails with "SVG file not found", which is none of the
\* messages of validateOptions, no directory has been created, nothing has
\* been written or rendered, and no manifest exists.
C12_SourceNotFound ==
  /\ "SVG file not found" \notin ConfigurationErrors
  /\ (PastFileExists /\ error \notin ConfigurationErrors
        /\ NothingAt(options.svgPath.s)) =>
       /\ RunFailed
       /\ error = "SVG file not found"
       /\ ~DirectoryCreated
       /\ writeLog = <<>>
       /\ renderLog = <<>>
       /\ results = <<>>

C12_Witness ==
  /\ pc = "threw"
  /\ error = "SVG file not found"
  /\ options.svgPath = Str(<<"a", "r", "t", "/", "l", "o", "g", "o", ".", "s", "v", "g">>)
  /\ fsDirs = {CwdDir}
  /\ options.outputDir = DEFAULT_OPTIONS.outputDir

(***************************************************************************)
(* Claims about the manifest and the files of a successful run.            *)
(***************************************************************************)
\* generateIcons has returned its results
RunSucceeded ==
  \/ pc = "returned"
  \/ pc = "exit0" /\ results # <<>>

\* the options as the caller configured them, defaults filled in
ConfiguredIcons == options.iconSizes.items

\* C13: after a successful run results.icons has the length of
\* options.iconSizes and its i-th entry has the size and the name of the
\* i-th configured entry and the path join(outputDir, name): configuration
\* order, also after the metadata emitters have run.  Before the end of the
\* run results.icons is a prefix of that list.
C13_IconsInConfigurationOrder ==
  /\ results # <<>> =>
       /\ Len(results.icons) <= Len(ConfiguredIcons)
       /\ \A i \in 1..Len(results.icons) :
            /\ results.icons[i].size = ConfiguredIcons[i].size
            /\ results.icons[i].name = ConfiguredIcons[i].name
            /\ results.icons[i].path =
                 pathJoin(options.outputDir.s, ConfiguredIcons[i].name.s)
  /\ RunSucceeded => Len(results.icons) = Len(ConfiguredIcons)

\* a successful run whose two icons are configured largest first
C13_Witness ==
  /\ pc = "returned"
  /\ "browserConfigFile" \in DOMAIN results
  /\ Len(results.icons) = 2
  /\ results.icons[1].size = Num(192)
  /\ results.icons[2].size = Num(191)

SeqToSet(seq) == {seq[i] : i \in 1..Len(seq)}

InOutputDir(fileName) == fsPath(pathJoin(options.outputDir.s, fileName))

IconFiles == {InOutputDir(ConfiguredIcons[i].name.s) : i \in 1..Len(ConfiguredIcons)}

FaviconsRequested ==
  /\ options.generateFavicon = Bool(TRUE)
  /\ options.faviconSizes.t = "array"
  /\ options.faviconSizes.items # <<>>

\* favicon-<s>.png for a requested integer size s
FaviconFileName(size) ==
  <<"f", "a", "v", "i", "c", "o", "n", "-">> \o natToString(size.n) \o <<".", "p", "n", "g">>

FaviconFiles ==
  IF FaviconsRequested
  THEN {InOutputDir(FaviconFileName(options.faviconSizes.items[i])) :
          i \in 1..Len(options.faviconSizes.items)}
  ELSE {}

RootFaviconsRequested == options.generateRootFavicons = Bool(TRUE)

RootFaviconFiles ==
  IF RootFaviconsRequested
  THEN {InOutputDir(<<"f", "a", "v", "i", "c", "o", "n", ".", "p", "n", "g">>),
        InOutputDir(<<"f", "a", "v", "i", "c", "o", "n", ".", "s", "v", "g">>),
        InOutputDir(<<"f", "a", "v", "i", "c", "o", "n", ".", "i", "c", "o">>)}
  ELSE {}

MetadataFiles ==
  {InOutputDir(<<"m", "e", "t", "a", "-", "t", "a", "g", "s", ".", "h", "t", "m", "l">>),
   InOutputDir(<<"m", "a", "n", "i", "f", "e", "s", "t", ".", "j", "s", "o", "n">>),
   InOutputDir(<<"b", "r", "o", "w", "s", "e", "r", "c", "o", "n", "f", "i", "g", ".", "x", "m", "l">>)}

\* C14: after a successful run the files written are exactly one PNG per
\* iconSizes entry, favicon-<s>.png per faviconSizes entry iff
\* generateFavicon is true and faviconSizes is not empty, favicon.png,
\* favicon.svg and favicon.ico iff generateRootFavicons is true, and always
\* meta-tags.html, manifest.json and browserconfig.xml; all of them exist.
C14_ExactOutputFiles ==
  RunSucceeded =>
    /\ SeqToSet(writeLog) =
         IconFiles \cup FaviconFiles \cup RootFaviconFiles \cup MetadataFiles
    /\ SeqToSet(writeLog) \subseteq DOMAIN fsFiles

\* a successful run without favicon sizes and with root favicons
C14_Witness ==
  /\ pc = "returned"
  /\ options.generateFavicon = Bool(FALSE)
  /\ RootFaviconsRequested
  /\ Len(ConfiguredIcons) = 2
  /\ Len(writeLog) = 8

\* C15: the returned manifest has the field rootFavicons iff
\* generateRootFavicons is enabled, as it is by default; the field holds
\* exactly png, svg and ico, each the path of a file that exists in the
\* output directory.
C15_RootFaviconsField ==
  /\ DEFAULT_OPTIONS.generateRootFavicons = Bool(TRUE)
  /\ RunSucceeded =>
       /\ ("rootFavicons" \in DOMAIN results) <=> RootFaviconsRequested
       /\ "rootFavicons" \in DOMAIN results =>
            /\ DOMAIN results.rootFavicons = {"png", "svg", "ico"}
            /\ \A k \in {"png", "svg", "ico"} :
                 /\ fsPath(results.rootFavicons[k]) \in DOMAIN fsFiles
                 /\ fsPath(dirname(fsPath(results.rootFavicons[k])))
                      = fsPath(options.outputDir.s)
            /\ results.rootFavicons.png # results.rootFavicons.svg
            /\ results.rootFavicons.png # results.rootFavicons.ico
            /\ results.rootFavicons.svg # results.rootFavicons.ico

C15_Witness ==
  /\ pc = "returned"
  /\ userOptions.generateRootFavicons = Absent
  /\ "rootFavicons" \in DOMAIN results
  /\ fsPath(results.rootFavicons.ico) \in DOMAIN fsFiles

(***************************************************************************)
(* Claims about the root favicons and the favicon sizes.                   *)
(***************************************************************************)
IcoPath == InOutputDir(<<"f", "a", "v", "i", "c", "o", "n", ".", "i", "c", "o">>)
SvgCopyPath == InOutputDir(<<"f", "a", "v", "i", "c", "o", "n", ".", "s", "v", "g">>)

\* generateRootFavicons has returned
RootFaviconsDone == results # <<>> /\ "rootFavicons" \in DOMAIN results

\* the renders started for the ICO file, in the order they were started
RECURSIVE IcoRenders(_)
IcoRenders(log) ==
  IF log = <<>> THEN <<>>
  ELSE IF Head(log).kind = "ico" THEN <<Head(log)>> \o IcoRenders(Tail(log))
  ELSE IcoRenders(Tail(log))

\* the image bytes directory entry k (0-based) of an ICO file points to
EntryImage(buf, k) == bytesAt(buf, EntryDataOffset(buf, k), EntryDataSize(buf, k))

\* C16: once the root favicons are generated, favicon.svg holds exactly the
\* bytes read from the source SVG, and favicon.ico declares two images,
\* 16x16 first and 32x32 second, each entry pointing to the render of its
\* size; both renders used the transparent background; this is so whatever
\* faviconPngSize and faviconSizes are.
C16_SvgCopyAndIcoPair ==
  RootFaviconsDone =>
    /\ fsFiles[SvgCopyPath] = svgBuffer
    /\ svgBuffer.bytes = SvgBytes
    /\ LET buf == fsFiles[IcoPath].bytes
       IN  /\ readUInt16LE(buf, 0) = 0
           /\ readUInt16LE(buf, 2) = 1
           /\ readUInt16LE(buf, 4) = 2
           /\ EntryWidth(buf, 0) = 16 /\ EntryHeight(buf, 0) = 16
           /\ EntryWidth(buf, 1) = 32 /\ EntryHeight(buf, 1) = 32
           /\ EntryImage(buf, 0) = pngBuffer(16)
           /\ EntryImage(buf, 1) = pngBuffer(32)
           /\ Len(buf) = 6 + 2 * 16 + Len(pngBuffer(16)) + Len(pngBuffer(32))
    /\ LET renders == IcoRenders(renderLog)
       IN  /\ Len(renders) = 2
           /\ renders[1].size = Num(16) /\ renders[2].size = Num(32)
           /\ \A k \in 1..2 : renders[k].background = BACKGROUNDS.transparent

C16_Witness ==
  /\ pc = "returned"
  /\ RootFaviconsDone
  /\ options.faviconPngSize = Num(48)
  /\ options.faviconSizes = Arr(<<>>)
  /\ IcoPath \in DOMAIN fsFiles

\* C17: after a successful run results.faviconSizes lists, in the order of
\* options.faviconSizes, one entry per requested size with that size and
\* the path join(outputDir, 'favicon-<size>.png') when generateFavicon is
\* true, and it is empty when generateFavicon is false or faviconSizes is
\* empty.
C17_FaviconSizesInRequestedOrder ==
  RunSucceeded =>
    IF FaviconsRequested
    THEN /\ Len(results.faviconSizes) = Len(options.faviconSizes.items)
         /\ \A i \in 1..Len(results.faviconSizes) :
              /\ results.faviconSizes[i].size = options.faviconSizes.items[i]
              /\ results.faviconSizes[i].path =
                   pathJoin(options.outputDir.s,
                            FaviconFileName(options.faviconSizes.items[i]))
    ELSE results.faviconSizes = <<>>

(***************************************************************************)
(* Claims about a run that fails.                                          *)
(***************************************************************************)
\* C18: a step that fails ends the run: the error is recorded and the run
\* is in its failed state at once, every file written so far is on disk,
\* and from then on nothing is rendered, written or created and the run
\* never returns a manifest.
C18_FailureStopsRun ==
  [][ /\ (error' # "none") => (pc' \in {"threw", "exit1"})
      /\ (pc' \in {"threw", "exit1"}) =>
           /\ error' # "none"
           /\ SeqToSet(writeLog') \subseteq DOMAIN fsFiles'
           /\ fsFiles' = [q \in DOMAIN fsFiles' |->
                            IF q \in DOMAIN fsFiles THEN fsFiles[q] ELSE fsFiles'[q]]
           /\ DOMAIN fsFiles \subseteq DOMAIN fsFiles'
      /\ (pc \in {"threw", "exit1"}) =>
           /\ pc' \in {"threw", "exit1"}
           /\ error' = error
           /\ <<fsDirs, fsFiles, writeLog, renderLog, results>>'
                = <<fsDirs, fsFiles, writeLog, renderLog, results>> ]_vars

\* a run that fails in the last emitter, with the files before it on disk
C18_Witness ==
  /\ pc = "threw"
  /\ error = "name is not defined"
  /\ Len(writeLog) >= 3
  /\ InOutputDir(<<"m", "a", "n", "i", "f", "e", "s", "t", ".", "j", "s", "o", "n">>) \in DOMAIN fsFiles
  /\ InOutputDir(<<"b", "r", "o", "w", "s", "e", "r", "c", "o", "n", "f", "i", "g", ".", "x", "m", "l">>) \notin DOMAIN fsFiles

(***************************************************************************)
(* Claims about the metadata emitters.                                     *)
(***************************************************************************)
BrowserConfigPath == InOutputDir(<<"b", "r", "o", "w", "s", "e", "r", "c", "o", "n", "f", "i", "g", ".", "x", "m", "l">>)
ManifestPath == InOutputDir(<<"m", "a", "n", "i", "f", "e", "s", "t", ".", "j", "s", "o", "n">>)

TileSizes == {70, 144, 150, 310}

HasIconOfSize(k) == \E i \in 1..Len(results.icons) : results.icons[i].size = Num(k)

\* the tile of size k in a browserconfig document: an element whose src is
\* the name of an icon of that size
HasTileOfSize(doc, k) ==
  \E t \in 1..Len(doc.tiles) :
    \E i \in 1..Len(results.icons) :
      /\ results.icons[i].size = Num(k)
      /\ doc.tiles[t].src = <<"/", "i", "c", "o", "n", "s", "/">> \o results.icons[i].name.s

\* C19: generateBrowserConfig raises no error, whatever the manifest, and
\* its document has a tile element for exactly those of the sizes 70, 144,
\* 150 and 310 that results.icons has an entry of.
C19_BrowserConfigNeverThrows ==
  /\ error # "name is not defined"
  /\ (results # <<>> /\ BrowserConfigPath \in DOMAIN fsFiles) =>
       \A k \in TileSizes :
         HasTileOfSize(fsFiles[BrowserConfigPath], k) <=> HasIconOfSize(k)

\* the number of positions of seq that hold e
Count(seq, e) == Cardinality({i \in 1..Len(seq) : seq[i] = e})

\* the manifest entry the claim describes for an icon
PwaEntry(icon) ==
  [src |-> <<"/", "i", "c", "o", "n", "s", "/">> \o icon.name.s,
   sizes |-> natToString(icon.size.n) \o <<"x">> \o natToString(icon.size.n),
   type |-> <<"i", "m", "a", "g", "e", "/", "p", "n", "g">>,
   purpose |-> IF icon.size.n \in {192, 512} THEN <<"a", "n", "y", " ", "m", "a", "s", "k", "a", "b", "l", "e">> ELSE <<"a", "n", "y">>]

IsPwaName(name) == StartsWith(name, <<"i", "c", "o", "n", "-">>) /\ ~Includes(name, <<"a", "p", "p", "l", "e">>)

\* the size an entry of the manifest declares
DeclaredSize(e) == digitsValue(e.sizes, 0)

\* C20: the icons array of manifest.json holds exactly the entries of
\* results.icons whose name starts with "icon-" and does not contain
\* "apple", each as often as results.icons has it, in ascending order of
\* size, with purpose "any maskable" iff the size is 192 or 512 and "any"
\* otherwise.
C20_ManifestIcons ==
  (results # <<>> /\ "manifestFile" \in DOMAIN results) =>
    LET icons == fsFiles[ManifestPath].icons
        pwa == {i \in 1..Len(results.icons) : IsPwaName(results.icons[i].name.s)}
    IN  /\ Len(icons) = Cardinality(pwa)
        /\ \A i \in pwa :
             Count(icons, PwaEntry(results.icons[i]))
               = Cardinality({j \in pwa : results.icons[j] = results.icons[i]})
        /\ \A k \in 1..(Len(icons) - 1) :
             DeclaredSize(icons[k]) <= DeclaredSize(icons[k + 1])

\* a manifest of two entries that results.icons has largest first
C20_Witness ==
  /\ results # <<>>
  /\ "manifestFile" \in DOMAIN results
  /\ Len(results.icons) = 2
  /\ results.icons[1].size = Num(192)
  /\ IsPwaName(results.icons[1].name.s)
  /\ results.icons[2].size = Num(191)
  /\ IsPwaName(results.icons[2].name.s)
  /\ Len(fsFiles[ManifestPath].icons) = 2
  /\ DeclaredSize(fsFiles[ManifestPath].icons[1]) = 191
  /\ fsFiles[ManifestPath].icons[1].purpose = <<"a", "n", "y">>
  /\ DeclaredSize(fsFiles[ManifestPath].icons[2]) = 192

C24_VersionPrinted ==
  (entry = "cli" /\ pc = "exit0" /\ parseArgs(argv).exit = "version")
    => consoleOut > 0


\* C27: the three metadata emitters leave their input alone: a step that
\* runs generateHtmlMetaTags, generateManifestJson or generateBrowserConfig
\* ends with the same results.outputDir, results.icons and
\* results.faviconSizes (order included) it started with.
EmitterStep == pc \in {"writeHtml", "writeManifest", "writeBrowserConfig"}

C27_EmittersPure ==
  [][EmitterStep =>
       /\ results'.outputDir = results.outputDir
       /\ results'.icons = results.icons
       /\ results'.faviconSizes = results.faviconSizes]_vars


\* C28: a configuration validateOptions accepts has a positive integer size
\* in every entry of iconSizes.
C28_AcceptedSizesArePositiveIntegers ==
  (valPc = "done" /\ valResult = "ok") =>
    \A i \in DOMAIN valChecked.iconSizes.items :
      /\ IsInteger(valChecked.iconSizes.items[i].size)
      /\ NumGt(valChecked.iconSizes.items[i].size, 0)


\* C30: the svgPath check of the prompt accepts exactly the paths
\* generateIcons accepts: an answer passes the prompt's validate callback
\* if and only if a configuration with that svgPath (every other field
\* valid) passes validateOptions and the file exists.
PromptAnswers(sp) ==
  [NoOptions EXCEPT !.svgPath = Str(sp),
                    !.outputDir = Str(<<".", "/", "i", "c", "o", "n", "s">>),
                    !.quality = Num(95),
                    !.compressionLevel = Num(9),
                    !.generateFavicon = Bool(TRUE)]

GenerateAcceptsSvgPath(sp) ==
  /\ validateOptions(mergeOptions(DEFAULT_OPTIONS, PromptAnswers(sp))) = "ok"
  /\ pathExists(sp)

C30_PromptAgreesWithValidateOptions ==
  pc = "prompt" =>
    \A sp \in PromptSvgPathVals :
      promptAcceptsSvgPath(sp) <=> GenerateAcceptsSvgPath(sp)


\* the run is inside generateRootFavicons, at or after the two ICO renders
InIcoRenders == pc \in {"rootIco", "writeIco"}

IcoWritten == options # <<>> /\ IcoPath \in SeqToSet(writeLog)

\* C25: createIcoBuffer is reached only when both renders are done, no
\* favicon.ico is written while a render is pending, and once favicon.ico is
\* written its entry k has the size the k-th render was started with and
\* points to the buffer that render produced, 16 first and 32 second,
\* whichever render settled first.
C25_IcoAfterBothRenders ==
  /\ pc = "rootIco" =>
       /\ \E k \in 1..Len(icoJobs) : icoJobs[k].state = "pending"
       /\ ~IcoWritten
  /\ pc = "writeIco" =>
       /\ Len(icoJobs) = 2
       /\ \A k \in 1..Len(icoJobs) :
            /\ icoJobs[k].state = "done"
            /\ icoJobs[k].buffer = pngBuffer(IcoRenders(renderLog)[k].size.n)
       /\ ~IcoWritten
  /\ IcoWritten =>
       LET buf == fsFiles[IcoPath].bytes
           renders == IcoRenders(renderLog)
       IN  /\ renders[1].size = Num(16) /\ renders[2].size = Num(32)
           /\ \A k \in 1..2 :
                /\ icoJobs[k].state = "done"
                /\ EntryWidth(buf, k - 1) = renders[k].size.n
                /\ EntryHeight(buf, k - 1) = renders[k].size.n
                /\ EntryImage(buf, k - 1) = icoJobs[k].buffer
                /\ icoJobs[k].buffer = pngBuffer(renders[k].size.n)

\* the 32px render is done while the 16px render is still pending
C25_Witness ==
  /\ pc = "rootIco"
  /\ icoJobs[2].state = "done"
  /\ icoJobs[1].state = "pending"


\* no path occurs twice among the writes of the run
NoRepeatedWrite ==
  \A i, j \in 1..Len(writeLog) : i # j => writeLog[i] # writeLog[j]

DistinctIconNames ==
  \A i, j \in 1..Len(ConfiguredIcons) :
    i # j => ConfiguredIcons[i].name # ConfiguredIcons[j].name

\* the icon names give pairwise distinct paths, none of them the path of a
\* favicon-<size>.png, root favicon or metadata file the run is to write, and
\* no favicon size is requested twice
DistinctOutputPaths ==
  /\ \A i, j \in 1..Len(ConfiguredIcons) :
       i # j => InOutputDir(ConfiguredIcons[i].name.s)
                  # InOutputDir(ConfiguredIcons[j].name.s)
  /\ IconFiles \cap (FaviconFiles \cup RootFaviconFiles \cup MetadataFiles) = {}
  /\ FaviconsRequested =>
       \A i, j \in 1..Len(options.faviconSizes.items) :
         i # j => options.faviconSizes.items[i] # options.faviconSizes.items[j]

\* C26 as stated: in a run whose iconSizes names are pairwise distinct no
\* output path is written more than once.
C26_DistinctNamesNoRepeatedWrite ==
  (options # <<>> /\ DistinctIconNames) => NoRepeatedWrite

\* C26: in a run whose output paths are pairwise distinct (icon paths among
\* themselves and against the favicon-<size>.png, favicon.png/.svg/.ico and
\* metadata paths the configuration asks for, favicon sizes without
\* repetition) no output path is written more than once.
C26_DistinctPathsNoRepeatedWrite ==
  (options # <<>> /\ DistinctOutputPaths) => NoRepeatedWrite

\* a successful run that wrote two icons, two favicon sizes, the three root
\* favicons and the three metadata files
C26_Witness ==
  /\ pc = "returned"
  /\ DistinctOutputPaths
  /\ Len(ConfiguredIcons) = 2
  /\ FaviconsRequested /\ RootFaviconsRequested
  /\ Len(writeLog) = 10


\* C23: a successful generateCustomIcons call has read the svgPath it was
\* given, has written into the outputDir it was given, and returns a
\* manifest whose icons are the entries of customSizes in the given order,
\* whatever additionalOptions holds.
C23_PositionalArgumentsUsed ==
  (entry = "custom" /\ pc = "returned") =>
    /\ options.svgPath = customArgs.svgPath
    /\ results.outputDir = customArgs.outputDir
    /\ \A i \in 1..Len(writeLog) :
         fsPath(dirname(writeLog[i])) = fsPath(customArgs.outputDir.s)
    /\ Len(results.icons) = Len(customArgs.customSizes.items)
    /\ \A i \in 1..Len(results.icons) :
         /\ results.icons[i].size = customArgs.customSizes.items[i].size
         /\ results.icons[i].name = customArgs.customSizes.items[i].name


\* the second run of the caller has ended; kind is how it was started
SecondRunEnded(kind) ==
  /\ firstRun # <<>> /\ firstRun.ended /\ firstRun.second = kind
  /\ pc \in {"returned", "threw"}

\* both runs ended where the environment let them: both returned having
\* read the same package.json, or both failed having got equally far
SameEnvironment ==
  \/ /\ pc = "returned" /\ firstRun.pc = "returned"
     /\ packageJson = firstRun.packageJson
  \/ /\ pc = "threw" /\ firstRun.pc = "threw"
     /\ svgBuffer = firstRun.svgBuffer
     /\ fsDirs = firstRun.fsDirs
     /\ idx = firstRun.idx
     /\ Len(renderLog) = Len(firstRun.renderLog)
     /\ Len(writeLog) = Len(firstRun.writeLog)
     /\ Len(faviconFiles) = Len(firstRun.faviconFiles)
     /\ icoJobs = firstRun.icoJobs
     /\ packageJson = firstRun.packageJson

\* the errors a configuration and a file system decide by themselves
DecidedErrors == ConfigurationErrors \cup {"SVG file not found"}

\* C22: two runs that start from the same file system and differ only in
\* verbose, in an environment that treats both alike, write the same paths
\* in the same order, leave the same files with the same contents, and
\* return the same manifest or fail with the same error; a run that fails
\* on its configuration or its missing source fails the same way with the
\* other value of verbose.
C22_VerboseHasNoEffectOnArtifacts ==
  SecondRunEnded("otherVerbose") =>
    /\ SameEnvironment =>
         /\ error = firstRun.error
         /\ writeLog = firstRun.writeLog
         /\ fsFiles = firstRun.fsFiles
         /\ fsDirs = firstRun.fsDirs
         /\ pc = "returned" => results = firstRun.results
    /\ (firstRun.error \in DecidedErrors \/ error \in DecidedErrors) =>
         /\ pc = "threw" /\ firstRun.pc = "threw"
         /\ error = firstRun.error
         /\ fsFiles = firstRun.fsFiles

\* both runs succeeded, one printing its progress and one silent, and wrote
\* icons, favicons and metadata
C22_Witness ==
  /\ SecondRunEnded("otherVerbose")
  /\ pc = "returned" /\ firstRun.pc = "returned"
  /\ packageJson = firstRun.packageJson
  /\ userOptions.verbose # firstRun.userOptions.verbose
  /\ Len(results.icons) = 2
  /\ Len(writeLog) = 10

\* C29: a run leaves the caller's object as it was passed and the merged
\* options equal to { ...DEFAULT_OPTIONS, ...userOptions } (the arrays of
\* the defaults and of the caller, which the merged object shares, keep
\* their contents) until it ends, successful or failed; and a second run
\* with the same object, when both succeed, returns a manifest equal to the
\* first one's.
C29_NoCrossInvocationState ==
  firstRun # <<>> =>
    /\ (~firstRun.ended \/ firstRun.second = "same")
         => userOptions = firstRun.userOptions
    /\ options # <<>> => options = mergeOptions(DEFAULT_OPTIONS, userOptions)
    /\ (SecondRunEnded("same") /\ pc = "returned" /\ firstRun.pc = "returned")
         => results = firstRun.results

\* the second of two successful runs with the same object and the default
\* favicon sizes has returned
C29_Witness ==
  /\ SecondRunEnded("same")
  /\ pc = "returned" /\ firstRun.pc = "returned"
  /\ Len(results.icons) = 2
  /\ Len(results.faviconSizes) = 2
  /\ "browserConfigFile" \in DOMAIN results

====
